---- MODULE Spec2Model ----
(***************************************************************************)
(* Verification model of StakeLab-Zone/monitoring-tools.                   *)
(*                                                                         *)
(* Part 1: the block-ingestion pipeline of                                 *)
(* berachain-beacon-data/beacon-ingestion.py (MySQL back end): the         *)
(* relational store, process_batch, ingest_blocks and the loop of main.    *)
(*                                                                         *)
(* Two specifications share the store:                                     *)
(*   Spec       the running process: main, the thread pool, the workers,   *)
(*              the remote node, signals and crash/restart;                *)
(*   StoreSpec  the _store_* statements applied to records drawn from      *)
(*              bounded sets (the pipeline itself never passes child rows). *)
(***************************************************************************)
EXTENDS Integers, Sequences, FiniteSets, TLC

\* ------------------------------------------------------------------ bounds
\* highest unit the remote chain produces
MaxHeight == 2
\* largest --batch-size tried
MaxBatch == 2
\* largest --workers tried
MaxWorkers == 2
\* injected failures (transport, statement, commit, rollback, lagging node) per run
MaxFaults == 1
\* kill-and-restart events per run
MaxCrashes == 1
\* StoreSpec: wall clock, in milliseconds
MaxClock == 1000
\* StoreSpec: rows an auto-increment table may hold
MaxRows == 3
\* BatchSpec: highest remote height
RangeMax == 6
\* BatchSpec: largest --batch-size
BatchMax == 4
\* SetupSpec: highest watermark a database holds at startup
SetupMaxWatermark == 2
\* MonitorSpec: requests of the monitor that fail on every endpoint
MaxMonitorFailures == 2
\* endpoints given to --rpc, and calls of make_request in a row
MaxEndpoints == 3
MaxCalls == 3
\* UmeeSpec: nested get_req frames the interpreter allows (it stands for
\* sys.getrecursionlimit() less the frames in use), and passes of the loop
RecursionLimit == 2
MaxUmeePasses == 2
\* PeggoSpec: largest nonce of a response, and passes of the loop
MaxNonce == 2
MaxPeggoPasses == 3
\* TimestampSpec: fractions enumerated up to this length, seconds of the inputs
FracLen == 2
TimeSeconds == 2

\* ------------------------------------------------------------------- state
VARIABLES
    \* the relational store (setup_tables, lines 411-531)
    cosmos_blocks,          \* height -> row              (PRIMARY KEY height)
    transactions,           \* hash -> row                (PRIMARY KEY hash)
    evidence,               \* sequence of rows           (id AUTO_INCREMENT)
    signatures,             \* sequence of rows           (id AUTO_INCREMENT)
    validator_sets,         \* <<height, address>> -> row (PRIMARY KEY pair)
    last_block_processed,   \* ingestion_progress row id = 1, NoRow before setup
    schema,                 \* the tables, added columns and indexes that exist
    \* the environment
    chain_height,           \* latest height of the remote chain
    now,                    \* wall clock, milliseconds
    \* the process
    batch_size,             \* --batch-size
    max_workers,            \* --workers
    mainPc,                 \* position of the main thread
    latest_height,          \* main: latest_height
    start_height,           \* main: start_height
    processed_blocks,       \* ingest_blocks: processed_blocks
    tasks,                  \* the futures of the running ingest_blocks call
    checked_out,            \* connections checked out of the pool
    error_log,              \* error lines printed: <<kind, unit>>
    signal,                 \* termination signal delivered to the process
    exit_code,              \* exit status once mainPc = "exited"
    exit_cause,             \* what ended the process
    \* history, for stating the properties
    faults,                 \* failures injected so far
    crashes,                \* kill-and-restart events so far
    committed_call,         \* units whose watermark update ran in this call
    failed_call,            \* units of this call that failed or were absent
    \* one call of fetch_block_data, request by request (FetchSpec)
    fetch_pc,               \* "idle", "block", "validators", "returned"
    fetch_height,           \* the height asked for
    retries_left,           \* what is left of Retry(total) for the request
    block_response,         \* what the /block request produced
    validators_response,    \* what the /validators request produced
    fetch_return,           \* the value returned and whether a line was printed
    \* beacond-monitor.py, ValidatorMonitor (MonitorSpec)
    monitor,                \* monitor_validators: its position and its locals
    metrics,                \* BLOCKS_SIGNED, MISSED_BLOCKS, SIGNING_PERCENTAGE
    rpc,                    \* ValidatorMonitor.make_request (FailoverSpec)
    umee,                   \* umee-pricefeeder-exporter.py (UmeeSpec)
    peggo                   \* injective-peggo-prometheus-exporter.py (PeggoSpec)

storeVars == <<cosmos_blocks, transactions, evidence, signatures, validator_sets,
               last_block_processed>>
envVars == <<chain_height, now>>
procVars == <<batch_size, max_workers, mainPc, latest_height, start_height,
              processed_blocks, tasks, checked_out, error_log,
              signal, exit_code, exit_cause>>
histVars == <<faults, crashes, committed_call, failed_call>>
fetchVars == <<fetch_pc, fetch_height, retries_left, block_response,
               validators_response, fetch_return>>
monitorVars == <<monitor, metrics>>
scriptVars == <<rpc, umee, peggo>>
vars == <<storeVars, schema, envVars, procVars, histVars, fetchVars, monitorVars, scriptVars>>

\* ingestion_progress holds no row before setup_tables inserts (1, 0, 0)
NoRow == -1

Max(a, b) == IF a >= b THEN a ELSE b
Min(a, b) == IF a <= b THEN a ELSE b

RECURSIVE SetMax(_)
SetMax(S) ==
    IF S = {} THEN 0
    ELSE LET x == CHOOSE y \in S : TRUE
         IN Max(x, SetMax(S \ {x}))

\* -------------------------------------------------------------- timestamps
\* A source timestamp: wf = the date and time part parses; dot = a '.' is
\* present; frac = the digits after it (the trailing 'Z' is stripped).
\* a character of the fraction that is no digit
NonDigit == 10

\* (mutant) the microseconds are rounded to the nearest millisecond
MillisRounded(frac) ==
    LET six == SubSeq(frac, 1, Min(Len(frac), 6))
        pad == six \o <<0, 0, 0, 0, 0, 0>>
        micro == pad[1] * 100000 + pad[2] * 10000 + pad[3] * 1000
                   + pad[4] * 100 + pad[5] * 10 + pad[6]
    IN (micro + 500) \div 1000

\* fractional[:6], '%f' pads to microseconds, strftime(...)[:-3] drops the
\* last three digits
Millis(frac) ==
    LET six == SubSeq(frac, 1, Min(Len(frac), 6))
        pad == six \o <<0, 0, 0, 0, 0, 0>>
    IN pad[1] * 100 + pad[2] * 10 + pad[3]

WallClock(t) == [sec |-> t \div 1000, ms |-> t % 1000]

\* strptime rejects the string: the date and time part, or a fraction that
\* is empty or has a non-digit among the six characters that are kept
StrptimeRaises(ts) ==
    \/ ~ts.wf
    \/ /\ ts.dot
       /\ \/ Len(ts.frac) = 0
          \/ \E i \in 1..Min(Len(ts.frac), 6) : ts.frac[i] = NonDigit

\* (mutant) no fallback: a string that does not parse gives the zero date
ParseTimestampZeroDate(ts, t) ==
    IF StrptimeRaises(ts)
    THEN [sec |-> 0, ms |-> 0]
    ELSE IF ts.dot
         THEN [sec |-> ts.sec, ms |-> Millis(ts.frac)]
         ELSE [sec |-> ts.sec, ms |-> 0]

\* _parse_timestamp: '%f' needs at least one digit, anything strptime rejects
\* falls back to utcnow() with millisecond precision
ParseTimestamp(ts, t) ==
    IF StrptimeRaises(ts)
    THEN WallClock(t)
    ELSE IF ts.dot
         THEN [sec |-> ts.sec, ms |-> Millis(ts.frac)]
         ELSE [sec |-> ts.sec, ms |-> 0]

GoodTime(s) == [wf |-> TRUE, sec |-> s, dot |-> TRUE, frac |-> <<1, 2, 3, 4, 5, 6, 7, 8, 9>>]
PlainTime(s) == [wf |-> TRUE, sec |-> s, dot |-> FALSE, frac |-> <<>>]
BadTime == [wf |-> FALSE, sec |-> 0, dot |-> FALSE, frac |-> <<>>]

\* ------------------------------------------------------------ setup_tables
\* the tables of setup_tables, in the order of its dictionary
TableOrder ==
    <<"cosmos_blocks", "transactions", "evidence", "validators", "signatures",
      "validator_sets", "ingestion_progress">>
SchemaTables == {TableOrder[i] : i \in 1..Len(TableOrder)}
\* what setup_tables adds to a cosmos_blocks table of an older version
AddedToBlocks == {"cosmos_blocks.proposer_name", "cosmos_blocks.idx_proposer_name"}
FullSchema == SchemaTables \cup AddedToBlocks

\* CREATE TABLE cosmos_blocks holds the column and the index from the start
CreatedBy(table) ==
    IF table = "cosmos_blocks" THEN {table} \cup AddedToBlocks ELSE {table}

\* the tables of the dictionary that are not among existing_tables
MissingTables(existing) == SelectSeq(TableOrder, LAMBDA tb : tb \notin existing)

\* a complete run of lines 405-600: every missing table is created, and an
\* existing cosmos_blocks gets the column and the index it lacks
SetupSchema(existing) ==
    existing
      \cup UNION {CreatedBy(tb) : tb \in SchemaTables \ existing}
      \cup (IF "cosmos_blocks" \in existing THEN AddedToBlocks ELSE {})

\* (mutant) the progress row is written on every setup
SetupProgressResets(row) == 0

\* lines 602-614: the row (1, 0, 0) is inserted only when no row has id 1
SetupProgress(row) == IF row = NoRow THEN 0 ELSE row

\* ------------------------------------------------------- store statements
\* INSERT ... ON DUPLICATE KEY UPDATE on a table with a primary key
Upsert(table, key, row) ==
    [k \in DOMAIN table \cup {key} |-> IF k = key THEN row ELSE table[k]]

\* plain INSERT into a table whose key is an AUTO_INCREMENT id
InsertAuto(table, row) == Append(table, row)

\* _store_block: one upsert keyed by block_data['height']
StoreBlock(table, block_data, t) ==
    Upsert(table, block_data.height,
           [height |-> block_data.height,
            hash |-> block_data.hash,
            time |-> ParseTimestamp(block_data.time, t)])

RECURSIVE StoreTransactions(_, _, _)
\* _store_transactions: one upsert per transaction, keyed by hash, stamped
\* with the wall clock at second precision
StoreTransactions(table, txs, t) ==
    IF txs = <<>> THEN table
    ELSE StoreTransactions(
             Upsert(table, Head(txs).hash,
                    [hash |-> Head(txs).hash, height |-> Head(txs).height,
                     timestamp |-> [sec |-> t \div 1000, ms |-> 0]]),
             Tail(txs), t)

RECURSIVE StoreEvidence(_, _, _)
\* _store_evidence: one plain INSERT per entry
StoreEvidence(table, evidence_list, t) ==
    IF evidence_list = <<>> THEN table
    ELSE StoreEvidence(
             InsertAuto(table,
                        [height |-> Head(evidence_list).height,
                         validator_address |-> Head(evidence_list).validator,
                         timestamp |-> ParseTimestamp(Head(evidence_list).timestamp, t)]),
             Tail(evidence_list), t)

RECURSIVE StoreSignatures(_, _, _)
\* _store_signatures: one plain INSERT per entry
StoreSignatures(table, sigs, t) ==
    IF sigs = <<>> THEN table
    ELSE StoreSignatures(
             InsertAuto(table,
                        [height |-> Head(sigs).height,
                         validator_address |-> Head(sigs).validator_address,
                         block_id_flag |-> Head(sigs).block_id_flag,
                         timestamp |-> ParseTimestamp(Head(sigs).timestamp, t)]),
             Tail(sigs), t)

RECURSIVE StoreValidatorSet(_, _, _)
\* _store_validator_set: one upsert per validator, keyed by (height, address)
StoreValidatorSet(table, height, validators) ==
    IF validators = <<>> THEN table
    ELSE StoreValidatorSet(
             Upsert(table, <<height, Head(validators).address>>,
                    [height |-> height,
                     validator_address |-> Head(validators).address,
                     voting_power |-> Head(validators).voting_power]),
             height, Tail(validators))

\* (mutant) the statement records the height before the one just stored
UpdateProgressPrevious(current, height) == height - 1

\* the progress statement of process_batch: INSERT (1, height, height)
\* ON DUPLICATE KEY UPDATE last_block_processed = new value
UpdateProgress(current, height) == height

\* get_last_processed_block: result[0] if result else 0
GetLastProcessedBlock(row) == IF row = NoRow THEN 0 ELSE row

\* (mutant) one transaction for all the work on the table: a rollback
\* discards every row written so far
ConnRollbackAll(table, fresh) == <<>>

\* get_connection sets conn.autocommit = True: every statement is durable
\* when it returns, so conn.rollback() has nothing to undo
ConnRollback(table, fresh) == table

\* ------------------------------------------------------------ remote node
\* fetch_block_data's result for a block the node serves. The hash is read
\* from the top level of the response (result.get("block_id")), which holds
\* no block_id, so it is always the default "".
FetchedBlock(h) == [height |-> h, hash |-> "", time |-> GoodTime(h)]

\* (mutant) a missing "result" is printed like a transport error
FetchLogAbsentToo(outcome, h) ==
    IF outcome \in {"error", "absent"} THEN {<<"fetch", h>>} ELSE {}

\* what fetch_block_data prints: only the except branch (line 787) logs
FetchLog(outcome, h) == IF outcome = "error" THEN {<<"fetch", h>>} ELSE {}

\* -------------------------------------------------------------- batching
\* ingest_blocks: range(start, end + 1, batch_size) and
\* batch_end = min(batch_start + batch_size - 1, end_height)
BatchCount(start, end, size) == IF end < start THEN 0 ELSE (end - start) \div size + 1
BatchStart(start, size, i) == start + (i - 1) * size

\* (mutant) batch_end without the min(): the last batch runs past end_height
BatchEndUnclamped(start, end, size, i) == BatchStart(start, size, i) + size - 1

BatchEnd(start, end, size, i) == Min(BatchStart(start, size, i) + size - 1, end)

NewTask(lo, hi) ==
    [lo |-> lo, hi |-> hi, pc |-> "queued", height |-> lo, blocks_processed |-> 0,
     fresh |-> {}, last_fetch |-> "none", result |-> 0, collected |-> FALSE]

\* (mutant) the batches start at height 1 whatever start_height is
SubmitBatchesFromOne(start, end, size) ==
    [i \in 1..BatchCount(1, end, size) |->
        NewTask(BatchStart(1, size, i), BatchEnd(1, end, size, i))]

\* executor.submit for every batch, in increasing order
SubmitBatches(start, end, size) ==
    [i \in 1..BatchCount(start, end, size) |->
        NewTask(BatchStart(start, size, i), BatchEnd(start, end, size, i))]

Finished(tk) == tk.pc \in {"done", "raised"}
Running(tk) == tk.pc \notin {"queued", "done", "raised"}
AllFinished == \A t \in DOMAIN tasks : Finished(tasks[t])
AllCollected == \A t \in DOMAIN tasks : tasks[t].collected
RunningCount == Cardinality({t \in DOMAIN tasks : Running(tasks[t])})
TaskUnits(tk) == tk.lo..tk.hi
Units(ts) == UNION {TaskUnits(ts[t]) : t \in DOMAIN ts}

\* (mutant) continue that does not move to the next height
NextUnitSameHeight(tk) ==
    IF tk.height < tk.hi
    THEN [tk EXCEPT !.pc = "fetch", !.fresh = {}]
    ELSE [tk EXCEPT !.pc = "done", !.result = tk.blocks_processed, !.fresh = {}]

\* the for loop of process_batch: the next height, or return blocks_processed
NextUnit(tk) ==
    IF tk.height < tk.hi
    THEN [tk EXCEPT !.pc = "fetch", !.height = @ + 1, !.fresh = {}]
    ELSE [tk EXCEPT !.pc = "done", !.result = tk.blocks_processed, !.fresh = {}]

\* (mutant) process_batch without its inner try: the error of a unit leaves
\* the function
OnUnitErrorUncaught(tk) == [tk EXCEPT !.pc = "raised"]

\* the inner except of process_batch (lines 830-833) catches the error of a
\* statement or of the commit; its first act after printing is conn.rollback()
OnUnitError(tk) == [tk EXCEPT !.pc = "rollback"]

\* the finally of process_batch returns the connection when the task ends
Released(tk) == IF Finished(tk) THEN 1 ELSE 0

\* (mutant) future.result() outside a try: the exception leaves ingest_blocks
CollectOutcomeUncaught(tk) ==
    IF tk.pc = "raised"
    THEN [add |-> 0, log |-> {}, escapes |-> TRUE]
    ELSE [add |-> tk.result, log |-> {}, escapes |-> FALSE]

\* ingest_blocks, lines 859-865: a result is added, an exception of the
\* future is caught and printed
CollectOutcome(tk) ==
    IF tk.pc = "raised"
    THEN [add |-> 0, log |-> {<<"future", tk.lo>>}, escapes |-> FALSE]
    ELSE [add |-> tk.result, log |-> {}, escapes |-> FALSE]

\* (mutant) the cycle starts at the watermark itself
CycleStartAtWatermark(row) == GetLastProcessedBlock(row)

\* main, lines 1161-1170: the range of the cycle
CycleStart(row) == GetLastProcessedBlock(row) + 1
CycleIdle(start, latest) == start > latest

\* ------------------------------------------------------- fetch_block_data
\* RequestsSession: Retry(total=retries, ...) with retries=3
RetryTotal == 3
\* what Retry retries: connection and read errors (timeouts included) and
\* the statuses of status_forcelist
RetryStatuses == {"429", "500", "502", "503", "504"}
RetryConditions == {"connection"} \cup RetryStatuses
\* error statuses outside status_forcelist: the response is handed back and
\* raise_for_status raises HTTPError
OtherErrorStatuses == {"400", "404", "501"}
\* every way one attempt of a request can fail
AttemptErrors == RetryConditions \cup OtherErrorStatuses

\* (mutant) status_forcelist left out of the test: every failed attempt is
\* retried while the budget lasts
ShouldRetryAnyError(outcome, left) == outcome \in AttemptErrors /\ left > 0

\* urllib3's Retry as RequestsSession configures it: a failed attempt is
\* repeated when its cause is one Retry covers and the budget is not used up
ShouldRetry(outcome, left) == outcome \in RetryConditions /\ left > 0

NoResponse == [kind |-> "none"]
Retrying(cause) == [kind |-> "retrying", cause |-> cause]
Raised(cause) == [kind |-> "raised", cause |-> cause]
Json(body) == [kind |-> "json", body |-> body]

\* an entry of last_commit.signatures: a JSON object with its flag and its
\* signature ("" stands for an empty, null or missing one), or a value that
\* is no object
CommitSig(flag, signature) ==
    [is_dict |-> TRUE, block_id_flag |-> flag, signature |-> signature]
NotObject == [is_dict |-> FALSE, block_id_flag |-> 0, signature |-> ""]
ExampleSignatures ==
    <<CommitSig(2, "a"), CommitSig(1, ""), CommitSig(3, "b"), CommitSig(2, "")>>
MixedSignatures ==
    <<NotObject, CommitSig(0, "x"), CommitSig(1, "y"), CommitSig(3, ""), CommitSig(2, "c")>>
SignatureLists == {<<>>, ExampleSignatures, MixedSignatures}

\* the parts of a block that fetch_block_data reads with a default
SubFields ==
    {"header", "header.height", "header.time", "header.proposer_address",
     "last_commit", "data", "evidence", "block_id"}
\* lists that a node may encode as JSON null instead of []
NullableFields == {"data.txs", "evidence.evidence", "last_commit.signatures"}

HasField(body, field) ==
    /\ field \notin body.absent
    /\ field \in {"header.height", "header.time", "header.proposer_address"}
          => "header" \notin body.absent

\* values of a body that stand for "no value in the payload"
NoHeight == -1
NoAddress == "(absent)"

\* the block of height h with the sub-fields of absent left out and the
\* lists of null encoded as null
Block(h, absent, null, sigs) ==
    LET body == [absent |-> absent]
    IN [has_result |-> TRUE,
        has_block |-> TRUE,
        absent |-> absent,
        null |-> null,
        height |-> IF HasField(body, "header.height") THEN h ELSE NoHeight,
        time |-> IF HasField(body, "header.time") THEN GoodTime(h) ELSE BadTime,
        proposer_address |-> IF HasField(body, "header.proposer_address")
                             THEN "v1" ELSE NoAddress,
        signatures |-> IF HasField(body, "last_commit") /\ "last_commit.signatures" \notin null
                       THEN sigs ELSE <<>>]

NoBlock(has_result) ==
    [has_result |-> has_result, has_block |-> FALSE, absent |-> {}, null |-> {},
     height |-> NoHeight, time |-> BadTime, proposer_address |-> NoAddress,
     signatures |-> <<>>]

\* JSON bodies of /block: an error object without "result" (the height is
\* not produced yet), a result without "block", the block of the height
\* asked for, proposed by v1, with each list of signatures, the same block
\* with one sub-field missing, with all of them missing, with one list null
BlockBodies(h) ==
    {NoBlock(FALSE), NoBlock(TRUE)}
      \cup {Block(h, {}, {}, sigs) : sigs \in SignatureLists}
      \cup {Block(h, {f}, {}, ExampleSignatures) : f \in SubFields}
      \cup {Block(h, SubFields, {}, <<>>)}
      \cup {Block(h, {}, {n}, ExampleSignatures) : n \in NullableFields}

AllBlockBodies == UNION {BlockBodies(h) : h \in 1..MaxHeight}

NodeVal1 == [address |-> "v1", voting_power |-> 10, proposer_priority |-> -3]
NodeVal2 == [address |-> "v2", voting_power |-> 20, proposer_priority |-> 7]
NodeVal1Again == [address |-> "v1", voting_power |-> 99, proposer_priority |-> 5]
\* JSON bodies of /validators: no "result", an empty set, a set without the
\* proposer, a set with it, a set that lists its address twice
ValidatorBodies ==
    {[has_result |-> FALSE, validators |-> <<>>],
     [has_result |-> TRUE, validators |-> <<>>],
     [has_result |-> TRUE, validators |-> <<NodeVal2>>],
     [has_result |-> TRUE, validators |-> <<NodeVal2, NodeVal1>>],
     [has_result |-> TRUE, validators |-> <<NodeVal2, NodeVal1, NodeVal1Again>>]}

RECURSIVE ProposerLookupLast(_, _)
\* (mutant) the loop has no break: the last match wins
ProposerLookupLast(validators, proposer_address) ==
    IF validators = <<>>
    THEN [voting_power |-> 0, proposer_priority |-> 0]
    ELSE LET last == validators[Len(validators)]
         IN IF last.address = proposer_address
            THEN [voting_power |-> last.voting_power,
                  proposer_priority |-> last.proposer_priority]
            ELSE ProposerLookupLast(SubSeq(validators, 1, Len(validators) - 1),
                                    proposer_address)

RECURSIVE ProposerLookup(_, _)
\* lines 731-740: the first validator whose address is the proposer's, zeros
\* when there is none
ProposerLookup(validators, proposer_address) ==
    IF validators = <<>>
    THEN [voting_power |-> 0, proposer_priority |-> 0]
    ELSE IF Head(validators).address = proposer_address
         THEN [voting_power |-> Head(validators).voting_power,
               proposer_priority |-> Head(validators).proposer_priority]
         ELSE ProposerLookup(Tail(validators), proposer_address)

\* (mutant) the signature value is not looked at
CountsSignatureByFlag(sig) == sig.is_dict /\ sig.block_id_flag > 1

\* lines 753-755: the test of one entry
CountsSignature(sig) ==
    /\ sig.is_dict
    /\ sig.block_id_flag > 1
    /\ sig.signature # ""

RECURSIVE ValidSignatures(_)
\* lines 752-755: sum(1 for sig in signatures if ...)
ValidSignatures(sigs) ==
    IF sigs = <<>> THEN 0
    ELSE (IF CountsSignature(Head(sigs)) THEN 1 ELSE 0) + ValidSignatures(Tail(sigs))

PyNone == [kind |-> "None"]
Pending == [value |-> [kind |-> "pending"], printed |-> FALSE]

\* lines 707-712: the /validators request is sent only for a response that
\* holds a block
HoldsBlock(response) ==
    /\ response.kind = "json"
    /\ response.body.has_result
    /\ response.body.has_block

\* lines 717, 752, 761, 762, 779: len() of, or a loop over, a list that is
\* null raises TypeError
TransformRaises(body) == body.null # {}

\* fetch_block_data as a function of what its two requests produced: the
\* value returned and whether the except branch printed its line
FetchBlockData(block, vals) ==
    IF block.kind = "raised"
    THEN [value |-> PyNone, printed |-> TRUE]
    ELSE IF ~HoldsBlock(block)
    THEN [value |-> PyNone, printed |-> FALSE]
    ELSE IF vals.kind = "raised" \/ TransformRaises(block.body)
    THEN [value |-> PyNone, printed |-> TRUE]
    ELSE LET body == block.body
             \* header.get("height", 0), header.get("time", ""),
             \* header.get("proposer_address", ""), last_commit.get("signatures", [])
             height == IF HasField(body, "header.height") THEN body.height ELSE 0
             time == IF HasField(body, "header.time") THEN body.time ELSE BadTime
             proposer_address ==
                 IF HasField(body, "header.proposer_address")
                 THEN body.proposer_address ELSE ""
             sigs == IF HasField(body, "last_commit") THEN body.signatures ELSE <<>>
             found == IF vals.body.has_result
                      THEN ProposerLookup(vals.body.validators, proposer_address)
                      ELSE [voting_power |-> 0, proposer_priority |-> 0]
         IN [value |-> [kind |-> "dict",
                        height |-> height,
                        hash |-> "",
                        time |-> time,
                        proposer_address |-> proposer_address,
                        valid_signatures |-> ValidSignatures(sigs),
                        total_signatures |-> Len(sigs),
                        total_voting_power |-> found.voting_power,
                        proposer_priority |-> found.proposer_priority],
             printed |-> FALSE]

FetchIdle ==
    /\ fetch_pc = "idle"
    /\ fetch_height = 0
    /\ retries_left = RetryTotal
    /\ block_response = NoResponse
    /\ validators_response = NoResponse
    /\ fetch_return = Pending

\* ------------------------------------------------------- ValidatorMonitor
\* monitor_validators: total_blocks = 100
TotalBlocks == 100
\* self.addresses, from --addresses
Addresses == <<"v1", "v2">>
AddressSet == {Addresses[i] : i \in 1..Len(Addresses)}

\* an entry of last_commit.signatures as the monitor reads it; bad_flag: the
\* flag is no number and block_id_flag > 1 raises TypeError
Vote(address, flag) ==
    [is_dict |-> TRUE, validator_address |-> address, block_id_flag |-> flag,
     bad_flag |-> FALSE]
BadVote(address) ==
    [is_dict |-> TRUE, validator_address |-> address, block_id_flag |-> 0,
     bad_flag |-> TRUE]
NoVote ==
    [is_dict |-> FALSE, validator_address |-> "", block_id_flag |-> 0, bad_flag |-> FALSE]

\* the chain the monitor looks at: the signatures of last_commit by height;
\* v1 listed twice, votes for nil, absent votes, a validator that is not
\* monitored, an entry that is no object, an entry whose flag is no number
SignaturesAt(h) ==
    CASE h % 4 = 0 -> <<Vote("v1", 2), Vote("v1", 2), Vote("v2", 1)>>
      [] h % 4 = 1 -> <<Vote("v1", 3), NoVote, Vote("v2", 2)>>
      [] h % 4 = 2 -> <<Vote("v1", 1), Vote("v9", 2)>>
      [] h % 4 = 3 -> <<Vote("v2", 2), BadVote("v1"), Vote("v1", 2)>>

RECURSIVE SignedVals(_)
\* lines 133-148: the set of monitored addresses with an entry whose flag is
\* > 1; an exception ends the loop and keeps what the set holds
SignedVals(sigs) ==
    IF sigs = <<>> THEN {}
    ELSE LET sig == Head(sigs)
         IN IF ~sig.is_dict \/ sig.validator_address \notin AddressSet
            THEN SignedVals(Tail(sigs))
            ELSE IF sig.bad_flag
            THEN {}
            ELSE (IF sig.block_id_flag > 1 THEN {sig.validator_address} ELSE {})
                   \cup SignedVals(Tail(sigs))

\* (mutant) signed_vals is a list: every signing entry is credited
RECURSIVE CreditPerEntry(_, _)
CreditPerEntry(counts, sigs) ==
    IF sigs = <<>> THEN counts
    ELSE LET sig == Head(sigs)
         IN IF sig.is_dict /\ sig.validator_address \in AddressSet /\ ~sig.bad_flag
               /\ sig.block_id_flag > 1
            THEN CreditPerEntry([counts EXCEPT ![sig.validator_address] = @ + 1], Tail(sigs))
            ELSE CreditPerEntry(counts, Tail(sigs))

\* lines 151-153: one credit for every address of signed_vals
Credit(counts, sigs) ==
    [addr \in AddressSet |-> IF addr \in SignedVals(sigs) THEN counts[addr] + 1
                             ELSE counts[addr]]

\* a value of the percentage gauge, kept as the fraction it is computed from
Percentage(signed, total) == [num |-> signed * 100, den |-> total]

\* (mutant) update_metrics guards total = 0 and sets the gauges to zero
UpdateMetricsZeroTotal(gauges, addr, signed, total) ==
    [blocks_signed |-> [gauges.blocks_signed EXCEPT ![addr] = signed],
     blocks_missed |-> [gauges.blocks_missed EXCEPT ![addr] = total - signed],
     signing_percentage |-> [gauges.signing_percentage EXCEPT ![addr] =
                                IF total = 0 THEN Percentage(0, 1)
                                ELSE Percentage(signed, total)]]

\* update_metrics: signed / total raises ZeroDivisionError for total = 0, the
\* except prints and the gauges are left as they were
UpdateMetrics(gauges, addr, signed, total) ==
    IF total = 0 THEN gauges
    ELSE [blocks_signed |-> [gauges.blocks_signed EXCEPT ![addr] = signed],
          blocks_missed |-> [gauges.blocks_missed EXCEPT ![addr] = total - signed],
          signing_percentage |-> [gauges.signing_percentage EXCEPT ![addr] =
                                     Percentage(signed, total)]]

RECURSIVE UpdateAll(_, _, _, _)
\* lines 161-166: the loop over self.addresses
UpdateAll(gauges, addrs, counts, actual_total_blocks) ==
    IF addrs = <<>> THEN gauges
    ELSE UpdateAll(UpdateMetrics(gauges, Head(addrs),
                                 Min(counts[Head(addrs)], actual_total_blocks),
                                 actual_total_blocks),
                   Tail(addrs), counts, actual_total_blocks)

ZeroCounts == [addr \in AddressSet |-> 0]

\* __init__ sets every gauge to 0; the loop is about to start its first pass
MonitorIdle ==
    /\ monitor = [pc |-> "start", latest_height |-> 0, start_height |-> 0, height |-> 0,
                  blocks_checked |-> 0, signed_counts |-> ZeroCounts, examined |-> {},
                  unvalidated |-> 0, outcome |-> "none", slept |-> 0,
                  failures |-> 0, completed |-> FALSE]
    /\ metrics = [blocks_signed |-> ZeroCounts, blocks_missed |-> ZeroCounts,
                  signing_percentage |-> [addr \in AddressSet |-> Percentage(0, 1)]]

\* ------------------------------------------------- RPC failover (make_request)
\* an endpoint of --rpc, as the parts url.split('/') tells apart
Endpoint(scheme, host) == [scheme |-> scheme, host |-> host]

\* the endpoints a run is started with are a prefix of this list
EndpointPool == <<Endpoint("http", "a:26657"), Endpoint("https", "b"),
                  Endpoint("http", "c:26657"), Endpoint("https", "d")>>

\* get_active_rpc, with the index counted from 0 as in the code
GetActiveRpc(endpoints, index) == endpoints[index + 1]

\* (mutant) switch_rpc leaves the index where it is
SwitchRpcStays(index, n) == index

\* switch_rpc
SwitchRpc(index, n) == (index + 1) % n

\* get_block / get_validator_set: f"{self.get_active_rpc()}/block"
UrlOf(endpoint, path) == [scheme |-> endpoint.scheme, host |-> endpoint.host, path |-> path]

\* line 64: url.replace(url.split('/')[2], new.split('/')[2]) exchanges the
\* host:port part and keeps the scheme and the path of the URL
ReplaceHost(url, endpoint) == [url EXCEPT !.host = endpoint.host]

FailoverIdle ==
    rpc = [endpoints |-> <<EndpointPool[1]>>, current_rpc_index |-> 0, pc |-> "idle",
           url |-> UrlOf(EndpointPool[1], "block"), attempt |-> 0, start |-> 0,
           sent |-> <<>>, result |-> "pending", calls |-> 0]

\* -------------------------------------------- umee-pricefeeder-exporter.py
\* OPERATOR_ADDRESS and the address of some other validator
Operator == "umeevaloper1"
OtherValidator == "umeevaloper2"

\* str.upper on the denoms that occur
Upper(denom) ==
    CASE denom = "atom" -> "ATOM"
      [] denom = "umee" -> "UMEE"
      [] OTHER -> denom

\* (mutant) the accept list is taken as sent
AcceptedDenomsAsSent(denoms_resp) ==
    {denoms_resp[i] : i \in 1..Len(denoms_resp)}

\* lines 64-65: symbol_denom.upper() of every entry, then list(set(...))
AcceptedDenoms(denoms_resp) ==
    {Upper(denoms_resp[i]) : i \in 1..Len(denoms_resp)}

Moniker(name) == [kind |-> "str", value |-> name]
Validator(address, name) == [operator_address |-> address, moniker |-> name]

RECURSIVE GetMoniker(_, _)
\* get_moniker: the moniker of the first validator with that address, or None
GetMoniker(validators, valaddr) ==
    IF validators = <<>> THEN PyNone
    ELSE IF Head(validators).operator_address = valaddr
         THEN Moniker(Head(validators).moniker)
         ELSE GetMoniker(Tail(validators), valaddr)

\* an entry of aggregate_votes; only set(exchange_rate_tuples denoms) is used
AggregateVote(voter, denoms) == [voter |-> voter, denoms |-> denoms]

RECURSIVE MissingVotes(_, _, _)
\* lines 79-92: the first vote of the operator decides (break); without one
\* the else of the for counts every accepted denom
MissingVotes(accepted_denoms, aggregate_votes, operator_address) ==
    IF aggregate_votes = <<>> THEN Cardinality(accepted_denoms)
    ELSE IF Head(aggregate_votes).voter = operator_address
         THEN Cardinality(accepted_denoms \ Head(aggregate_votes).denoms)
         ELSE MissingVotes(accepted_denoms, Tail(aggregate_votes), operator_address)

\* the exit status the shell sees for sys.exit(code)
ExitStatus(code) == code % 256

\* (mutant) log_error counts the error and returns
LogErrorReturns(u) ==
    [u EXCEPT !.errors_total = @ + 1, !.last = "status", !.depth = 0, !.pc = "sleep"]

\* log_error: ERRORS_TOTAL.inc(), sys.exit(-1); nothing catches SystemExit
LogError(u) ==
    [u EXCEPT !.errors_total = @ + 1, !.last = "status", !.depth = 0,
              !.pc = "exited", !.exit_status = ExitStatus(-1), !.exit_cause = "status"]

\* an exception nothing catches ends the interpreter with status 1
Uncaught(u, cause) ==
    [u EXCEPT !.last = cause, !.depth = 0,
              !.pc = "exited", !.exit_status = 1, !.exit_cause = cause]

\* (mutant) get_req counts its first request only
CountRequestOnce(u) ==
    [u EXCEPT !.requests_total = IF u.pc = "votes" /\ u.depth > 1 THEN @ ELSE @ + 1,
              !.issued = @ + 1]

\* REQUESTS_TOTAL.inc() after requests.get returned a response
CountRequest(u) ==
    [u EXCEPT !.requests_total = @ + 1, !.issued = @ + 1]

\* line 35: return get_req(url): one more frame, unless the interpreter's
\* recursion limit is reached and RecursionError is raised
Recurse(u) ==
    IF u.depth + 1 > RecursionLimit
    THEN Uncaught(u, "recursion")
    ELSE [u EXCEPT !.depth = @ + 1, !.last = "empty"]

\* lines 70-94 of votes_inspector, once get_req returned votes_resp
VotesInspector(u, aggregate_votes) ==
    LET total == [u EXCEPT !.aggregate_votes = aggregate_votes,
                           !.total_votes = Len(u.denoms_resp),
                           !.last = "votes", !.depth = 0, !.pc = "sleep"]
    IN IF GetMoniker(u.validators, Operator) = PyNone
       THEN total
       ELSE [total EXCEPT !.missing_votes =
                MissingVotes(AcceptedDenoms(u.denoms_resp), aggregate_votes, Operator)]

UmeeIdle ==
    umee = [pc |-> "denoms", requests_total |-> 0, errors_total |-> 0,
            missing_votes |-> 0, total_votes |-> 0,
            denoms_resp |-> <<>>, validators |-> <<>>, aggregate_votes |-> <<>>,
            depth |-> 0, last |-> "none", exit_status |-> 0, exit_cause |-> "none",
            issued |-> 0, passes |-> 0, missing_before |-> 0]

\* ------------------------------- injective-peggo-prometheus-exporter.py
\* the value of lon / lce when the response lacks the key (None)
NoNonce == -1

\* lines 52-59: the gauge after the module-state and oracle-event responses
SetLatency(p, lce_status, lce) ==
    IF p.lon_status = 200 /\ lce_status = 200
    THEN IF p.lon = NoNonce \/ lce = NoNonce
         THEN [p EXCEPT !.pc = "exited", !.exit_cause = "TypeError"]
         ELSE [p EXCEPT !.pc = "sleep", !.latency = lce - p.lon, !.gauge_set = TRUE]
    ELSE [p EXCEPT !.pc = "sleep", !.failed = "status"]

PeggoIdle ==
    peggo = [pc |-> "batch", latency |-> 0, lon_status |-> 200, lon |-> NoNonce,
             failed |-> "no", gauge_set |-> FALSE, exit_cause |-> "none", passes |-> 0]

ScriptsIdle ==
    /\ FailoverIdle
    /\ UmeeIdle
    /\ PeggoIdle

\* ------------------------------------------------------------------- Init
Init ==
    /\ cosmos_blocks = <<>>
    /\ transactions = <<>>
    /\ evidence = <<>>
    /\ signatures = <<>>
    /\ validator_sets = <<>>
    /\ last_block_processed = NoRow
    /\ schema \in {{}, FullSchema}
    /\ chain_height \in 1..MaxHeight
    /\ now = 0
    /\ batch_size \in 1..MaxBatch
    /\ max_workers \in 1..MaxWorkers
    /\ mainPc = "boot"
    /\ latest_height = 0
    /\ start_height = 0
    /\ processed_blocks = 0
    /\ tasks = <<>>
    /\ checked_out = 0
    /\ error_log = {}
    /\ signal = "none"
    /\ exit_code = 0
    /\ exit_cause = "none"
    /\ faults = 0
    /\ crashes = 0
    /\ committed_call = {}
    /\ failed_call = {}
    /\ FetchIdle
    /\ MonitorIdle
    /\ ScriptsIdle

\* the process ends: main returns or an exception leaves it
Exit(code, cause) ==
    /\ mainPc' = "exited"
    /\ exit_code' = code
    /\ exit_cause' = cause

Fault == /\ faults < MaxFaults
         /\ faults' = faults + 1

\* ------------------------------------------------------------ main thread
\* lines 1135-1148: pool creation and setup_tables succeed; setup_tables
\* inserts the progress row (1, 0, 0) only when none exists
StartupOk ==
    /\ mainPc = "boot"
    /\ mainPc' = "loop"
    /\ schema' = SetupSchema(schema)
    /\ last_block_processed' = SetupProgress(last_block_processed)
    /\ UNCHANGED <<cosmos_blocks, transactions, evidence, signatures, validator_sets>>
    /\ UNCHANGED <<envVars, histVars>>
    /\ UNCHANGED <<batch_size, max_workers, latest_height, start_height, processed_blocks,
                   tasks, checked_out, error_log, signal, exit_code,
                   exit_cause>>
    /\ UNCHANGED <<fetchVars, monitorVars, scriptVars>>

\* setup_tables creates the first k missing tables and the next CREATE TABLE
\* raises (lines 555-557): the tables created stay, the exception leaves main
SetupTablesFails(k) ==
    /\ mainPc = "boot"
    /\ k \in 1..(Len(MissingTables(schema)) - 1)
    /\ Fault
    /\ schema' = schema \cup UNION {CreatedBy(MissingTables(schema)[i]) : i \in 1..k}
    /\ Exit(1, "schema")
    /\ UNCHANGED <<storeVars, envVars, fetchVars, monitorVars, scriptVars>>
    /\ UNCHANGED <<batch_size, max_workers, latest_height, start_height, processed_blocks,
                   tasks, checked_out, error_log, signal>>
    /\ UNCHANGED <<crashes, committed_call, failed_call>>

\* DatabaseConnectionPool(...) or setup_tables raises: nothing catches it
StartupFails(cause) ==
    /\ mainPc = "boot"
    /\ Fault
    /\ Exit(1, cause)
    /\ UNCHANGED <<storeVars, envVars>>
    /\ UNCHANGED <<batch_size, max_workers, latest_height, start_height, processed_blocks,
                   tasks, checked_out, error_log, signal>>
    /\ UNCHANGED <<crashes, committed_call, failed_call>>
    /\ UNCHANGED <<schema, fetchVars, monitorVars, scriptVars>>

\* lines 1153-1158: the abci_info request answers (error_log holds the error
\* lines of the current cycle)
GetLatestHeight ==
    /\ mainPc = "loop"
    /\ latest_height' = chain_height
    /\ mainPc' = "read_progress"
    /\ error_log' = {}
    /\ UNCHANGED <<storeVars, envVars, histVars>>
    /\ UNCHANGED <<batch_size, max_workers, start_height, processed_blocks,
                   tasks, checked_out, signal, exit_code, exit_cause>>
    /\ UNCHANGED <<schema, fetchVars, monitorVars, scriptVars>>

\* the request, raise_for_status or the JSON lookup raises: lines 1175-1177
\* print and re-raise
GetLatestHeightFails ==
    /\ mainPc = "loop"
    /\ Fault
    /\ error_log' = error_log \cup {<<"main", 0>>}
    /\ Exit(1, "abci_info")
    /\ UNCHANGED <<storeVars, envVars>>
    /\ UNCHANGED <<batch_size, max_workers, latest_height, start_height, processed_blocks,
                   tasks, checked_out, signal>>
    /\ UNCHANGED <<crashes, committed_call, failed_call>>
    /\ UNCHANGED <<schema, fetchVars, monitorVars, scriptVars>>

\* lines 1161-1166: the watermark is read and the pending range is empty
ReadProgressIdle ==
    /\ mainPc = "read_progress"
    /\ CycleIdle(CycleStart(last_block_processed), latest_height)
    /\ start_height' = CycleStart(last_block_processed)
    /\ mainPc' = "sleep"
    /\ UNCHANGED <<storeVars, envVars, histVars>>
    /\ UNCHANGED <<batch_size, max_workers, latest_height, processed_blocks,
                   tasks, checked_out, error_log, signal, exit_code,
                   exit_cause>>
    /\ UNCHANGED <<schema, fetchVars, monitorVars, scriptVars>>

\* lines 1161-1170 and 846-857: the pending range is not empty; ingest_blocks
\* submits its batches
ReadProgressIngest ==
    /\ mainPc = "read_progress"
    /\ ~CycleIdle(CycleStart(last_block_processed), latest_height)
    /\ start_height' = CycleStart(last_block_processed)
    /\ tasks' = SubmitBatches(CycleStart(last_block_processed), latest_height, batch_size)
    /\ processed_blocks' = 0
    /\ committed_call' = {}
    /\ failed_call' = {}
    /\ mainPc' = "ingest"
    /\ UNCHANGED <<storeVars, envVars>>
    /\ UNCHANGED <<batch_size, max_workers, latest_height, checked_out,
                   error_log, signal, exit_code, exit_cause>>
    /\ UNCHANGED <<faults, crashes>>
    /\ UNCHANGED <<schema, fetchVars, monitorVars, scriptVars>>

\* get_last_processed_block raises (no connection, failed SELECT)
ReadProgressFails ==
    /\ mainPc = "read_progress"
    /\ Fault
    /\ error_log' = error_log \cup {<<"main", 0>>}
    /\ Exit(1, "progress_read")
    /\ UNCHANGED <<storeVars, envVars>>
    /\ UNCHANGED <<batch_size, max_workers, latest_height, start_height, processed_blocks,
                   tasks, checked_out, signal>>
    /\ UNCHANGED <<crashes, committed_call, failed_call>>
    /\ UNCHANGED <<schema, fetchVars, monitorVars, scriptVars>>

\* time.sleep(5) ends, continue
Wake ==
    /\ mainPc = "sleep"
    /\ mainPc' = "loop"
    /\ UNCHANGED <<storeVars, envVars, histVars>>
    /\ UNCHANGED <<batch_size, max_workers, latest_height, start_height, processed_blocks,
                   tasks, checked_out, error_log, signal, exit_code,
                   exit_cause>>
    /\ UNCHANGED <<schema, fetchVars, monitorVars, scriptVars>>

\* as_completed yields a finished future
CollectResult(t) ==
    /\ mainPc = "ingest"
    /\ t \in DOMAIN tasks
    /\ Finished(tasks[t])
    /\ ~tasks[t].collected
    /\ tasks' = [tasks EXCEPT ![t].collected = TRUE]
    /\ error_log' = error_log \cup CollectOutcome(tasks[t]).log
    /\ IF CollectOutcome(tasks[t]).escapes
       THEN /\ mainPc' = "shutdown"
            /\ exit_cause' = "batch"
            /\ exit_code' = 1
            /\ UNCHANGED processed_blocks
       ELSE /\ processed_blocks' = processed_blocks + CollectOutcome(tasks[t]).add
            /\ UNCHANGED <<mainPc, exit_code, exit_cause>>
    /\ UNCHANGED <<storeVars, envVars, histVars>>
    /\ UNCHANGED <<batch_size, max_workers, latest_height, start_height,
                   checked_out, signal>>
    /\ UNCHANGED <<schema, fetchVars, monitorVars, scriptVars>>

\* every future was collected: ingest_blocks returns processed_blocks, main
\* prints it and loops at once (the locals of the call are gone)
IngestReturn ==
    /\ mainPc = "ingest"
    /\ AllCollected
    /\ processed_blocks' = 0
    /\ committed_call' = {}
    /\ failed_call' = {}
    /\ tasks' = <<>>
    /\ mainPc' = "loop"
    /\ UNCHANGED <<storeVars, envVars, faults, crashes>>
    /\ UNCHANGED <<batch_size, max_workers, latest_height, start_height,
                   checked_out, error_log, signal, exit_code, exit_cause>>
    /\ UNCHANGED <<schema, fetchVars, monitorVars, scriptVars>>

\* ---------------------------------------------------------------- signals
\* (mutant) main without its except KeyboardInterrupt: Ctrl-C ends the
\* process with a traceback wherever it arrives
SignalExitCodeUncaught(pc, kind) == IF kind = "SIGINT" THEN 1 ELSE 0

\* the exit status after a signal: SystemExit(0) of handle_sigterm passes
\* every handler of main; KeyboardInterrupt is caught by the try of main
\* (lines 1150-1174) and is uncaught before it (lines 1111-1148)
SignalExitCode(pc, kind) == IF pc = "boot" /\ kind = "SIGINT" THEN 1 ELSE 0

\* SIGTERM runs handle_sigterm (sys.exit(0)), SIGINT raises KeyboardInterrupt,
\* both in the main thread. Inside ingest_blocks the exception leaves through
\* the executor's with block, whose exit waits for every submitted batch.
Signal(kind) ==
    /\ signal = "none"
    /\ mainPc \notin {"exited", "shutdown"}
    /\ signal' = kind
    /\ IF mainPc = "ingest"
       THEN /\ mainPc' = "shutdown"
            /\ exit_code' = SignalExitCode(mainPc, kind)
            /\ exit_cause' = "signal"
       ELSE Exit(SignalExitCode(mainPc, kind), "signal")
    /\ UNCHANGED <<storeVars, envVars, histVars>>
    /\ UNCHANGED <<batch_size, max_workers, latest_height, start_height, processed_blocks,
                   tasks, checked_out, error_log>>
    /\ UNCHANGED <<schema, fetchVars, monitorVars, scriptVars>>

\* executor.shutdown(wait=True) returns once all batches ended
ShutdownDone ==
    /\ mainPc = "shutdown"
    /\ AllFinished
    /\ mainPc' = "exited"
    /\ tasks' = <<>>
    /\ processed_blocks' = 0
    /\ committed_call' = {}
    /\ failed_call' = {}
    /\ UNCHANGED <<storeVars, envVars, faults, crashes>>
    /\ UNCHANGED <<batch_size, max_workers, latest_height, start_height,
                   checked_out, error_log, signal, exit_code, exit_cause>>
    /\ UNCHANGED <<schema, fetchVars, monitorVars, scriptVars>>

\* ---------------------------------------------------------------- workers
WorkersRun == mainPc \in {"ingest", "shutdown"}

\* what a worker step leaves alone besides the store, the tasks and the log
WorkerFrame ==
    /\ UNCHANGED envVars
    /\ UNCHANGED <<batch_size, max_workers, mainPc, latest_height, start_height,
                   processed_blocks, signal, exit_code, exit_cause>>
    /\ UNCHANGED crashes
    /\ UNCHANGED <<schema, fetchVars, monitorVars, scriptVars>>

ChildTables == <<transactions, evidence, signatures, validator_sets>>

\* a pool thread takes the oldest queued batch; process_batch gets a connection
StartTask(t) ==
    /\ WorkersRun
    /\ t \in DOMAIN tasks
    /\ tasks[t].pc = "queued"
    /\ \A u \in DOMAIN tasks : u < t => tasks[u].pc # "queued"
    /\ RunningCount < max_workers
    /\ tasks' = [tasks EXCEPT ![t].pc = "fetch"]
    /\ checked_out' = checked_out + 1
    /\ WorkerFrame
    /\ UNCHANGED <<storeVars, error_log, faults, committed_call, failed_call>>

\* get_connection raises at line 792, outside the try: the future fails
StartTaskFails(t) ==
    /\ WorkersRun
    /\ t \in DOMAIN tasks
    /\ tasks[t].pc = "queued"
    /\ \A u \in DOMAIN tasks : u < t => tasks[u].pc # "queued"
    /\ RunningCount < max_workers
    /\ Fault
    /\ tasks' = [tasks EXCEPT ![t].pc = "raised"]
    /\ failed_call' = failed_call \cup TaskUnits(tasks[t])
    /\ WorkerFrame
    /\ UNCHANGED <<storeVars, checked_out, error_log, committed_call>>

\* get_connection returned a connection and conn.cursor() raises at line 793,
\* before the try whose finally returns the connection: the future fails and
\* nothing gives the connection back to the pool
CursorFails(t) ==
    /\ WorkersRun
    /\ t \in DOMAIN tasks
    /\ tasks[t].pc = "queued"
    /\ \A u \in DOMAIN tasks : u < t => tasks[u].pc # "queued"
    /\ RunningCount < max_workers
    /\ Fault
    /\ tasks' = [tasks EXCEPT ![t].pc = "raised"]
    /\ checked_out' = checked_out + 1
    /\ failed_call' = failed_call \cup TaskUnits(tasks[t])
    /\ WorkerFrame
    /\ UNCHANGED <<storeVars, error_log, committed_call>>

\* fetch_block_data returns the block dictionary
FetchPayload(t) ==
    /\ WorkersRun
    /\ t \in DOMAIN tasks
    /\ tasks[t].pc = "fetch"
    /\ tasks[t].height <= chain_height
    /\ tasks' = [tasks EXCEPT ![t].pc = "store_block", ![t].last_fetch = "payload"]
    /\ error_log' = error_log \cup FetchLog("payload", tasks[t].height)
    /\ WorkerFrame
    /\ UNCHANGED <<storeVars, checked_out, faults, committed_call, failed_call>>

\* the answering node has not produced the height: the response holds no
\* "result" (lines 707-712), fetch_block_data returns None, process_batch
\* moves to the next height (line 801)
FetchAbsent(t, node_height) ==
    /\ WorkersRun
    /\ t \in DOMAIN tasks
    /\ tasks[t].pc = "fetch"
    /\ tasks[t].height > node_height
    /\ Fault
    /\ tasks' = [tasks EXCEPT ![t] = [NextUnit(tasks[t]) EXCEPT !.last_fetch = "absent"]]
    /\ error_log' = error_log \cup FetchLog("absent", tasks[t].height)
    /\ checked_out' = checked_out - Released(tasks'[t])
    /\ failed_call' = failed_call \cup {tasks[t].height}
    /\ WorkerFrame
    /\ UNCHANGED <<storeVars, committed_call>>

\* a request raises (transport error, HTTP error after the retries): the
\* except of fetch_block_data prints and returns None
FetchError(t) ==
    /\ WorkersRun
    /\ t \in DOMAIN tasks
    /\ tasks[t].pc = "fetch"
    /\ Fault
    /\ tasks' = [tasks EXCEPT ![t] = [NextUnit(tasks[t]) EXCEPT !.last_fetch = "error"]]
    /\ error_log' = error_log \cup FetchLog("error", tasks[t].height)
    /\ checked_out' = checked_out - Released(tasks'[t])
    /\ failed_call' = failed_call \cup {tasks[t].height}
    /\ WorkerFrame
    /\ UNCHANGED <<storeVars, committed_call>>

\* _store_block executes; the four child lists popped from block_data are
\* always empty (fetch_block_data returns none of these keys), so the other
\* _store_* calls execute no statement
StoreBlockOk(t) ==
    /\ WorkersRun
    /\ t \in DOMAIN tasks
    /\ tasks[t].pc = "store_block"
    /\ cosmos_blocks' = StoreBlock(cosmos_blocks, FetchedBlock(tasks[t].height), now)
    /\ tasks' = [tasks EXCEPT ![t].pc = "update_progress",
                              ![t].fresh = {tasks[t].height} \ DOMAIN cosmos_blocks]
    /\ WorkerFrame
    /\ UNCHANGED <<ChildTables, last_block_processed, checked_out, error_log, faults,
                   committed_call, failed_call>>

\* a statement raises: the inner except (lines 830-833) prints and rolls back
StoreBlockFails(t) ==
    /\ WorkersRun
    /\ t \in DOMAIN tasks
    /\ tasks[t].pc = "store_block"
    /\ Fault
    /\ tasks' = [tasks EXCEPT ![t] = OnUnitError(tasks[t])]
    /\ error_log' = error_log \cup {<<"unit", tasks[t].height>>}
    /\ failed_call' = failed_call \cup {tasks[t].height}
    /\ WorkerFrame
    /\ UNCHANGED <<storeVars, checked_out, committed_call>>

\* lines 818-827: the progress statement executes, blocks_processed += 1
UpdateProgressOk(t) ==
    /\ WorkersRun
    /\ t \in DOMAIN tasks
    /\ tasks[t].pc = "update_progress"
    /\ last_block_processed' = UpdateProgress(last_block_processed, tasks[t].height)
    /\ tasks' = [tasks EXCEPT ![t].pc = "commit", ![t].blocks_processed = @ + 1]
    /\ committed_call' = committed_call \cup {tasks[t].height}
    /\ WorkerFrame
    /\ UNCHANGED <<ChildTables, cosmos_blocks, checked_out, error_log, faults, failed_call>>

UpdateProgressFails(t) ==
    /\ WorkersRun
    /\ t \in DOMAIN tasks
    /\ tasks[t].pc = "update_progress"
    /\ Fault
    /\ tasks' = [tasks EXCEPT ![t] = OnUnitError(tasks[t])]
    /\ error_log' = error_log \cup {<<"unit", tasks[t].height>>}
    /\ failed_call' = failed_call \cup {tasks[t].height}
    /\ WorkerFrame
    /\ UNCHANGED <<storeVars, checked_out, committed_call>>

\* line 828: conn.commit() returns
CommitOk(t) ==
    /\ WorkersRun
    /\ t \in DOMAIN tasks
    /\ tasks[t].pc = "commit"
    /\ tasks' = [tasks EXCEPT ![t] = NextUnit(tasks[t])]
    /\ checked_out' = checked_out - Released(tasks'[t])
    /\ WorkerFrame
    /\ UNCHANGED <<storeVars, error_log, faults, committed_call, failed_call>>

\* conn.commit() raises, after blocks_processed was incremented
CommitFails(t) ==
    /\ WorkersRun
    /\ t \in DOMAIN tasks
    /\ tasks[t].pc = "commit"
    /\ Fault
    /\ tasks' = [tasks EXCEPT ![t] = OnUnitError(tasks[t])]
    /\ error_log' = error_log \cup {<<"unit", tasks[t].height>>}
    /\ failed_call' = failed_call \cup {tasks[t].height}
    /\ WorkerFrame
    /\ UNCHANGED <<storeVars, checked_out, committed_call>>

\* line 832-833: conn.rollback() returns, continue
RollbackOk(t) ==
    /\ WorkersRun
    /\ t \in DOMAIN tasks
    /\ tasks[t].pc = "rollback"
    /\ cosmos_blocks' = ConnRollback(cosmos_blocks, tasks[t].fresh)
    /\ tasks' = [tasks EXCEPT ![t] = NextUnit(tasks[t])]
    /\ checked_out' = checked_out - Released(tasks'[t])
    /\ WorkerFrame
    /\ UNCHANGED <<ChildTables, last_block_processed, error_log, faults, committed_call,
                   failed_call>>

\* conn.rollback() raises inside the handler: the exception reaches the outer
\* except (lines 837-840), which prints, rolls back again and returns 0,
\* whatever blocks_processed had reached
RollbackFailsReturn(t) ==
    /\ WorkersRun
    /\ t \in DOMAIN tasks
    /\ tasks[t].pc = "rollback"
    /\ cosmos_blocks' = ConnRollback(cosmos_blocks, tasks[t].fresh)
    /\ tasks' = [tasks EXCEPT ![t].pc = "done", ![t].result = 0, ![t].fresh = {}]
    /\ error_log' = error_log \cup {<<"batch", tasks[t].lo>>}
    /\ checked_out' = checked_out - 1
    /\ WorkerFrame
    /\ UNCHANGED <<ChildTables, last_block_processed, faults, committed_call, failed_call>>

\* the second rollback raises too: the exception leaves process_batch through
\* the finally (lines 841-844)
RollbackFailsRaise(t) ==
    /\ WorkersRun
    /\ t \in DOMAIN tasks
    /\ tasks[t].pc = "rollback"
    /\ tasks' = [tasks EXCEPT ![t].pc = "raised", ![t].fresh = {}]
    /\ error_log' = error_log \cup {<<"batch", tasks[t].lo>>}
    /\ checked_out' = checked_out - 1
    /\ WorkerFrame
    /\ UNCHANGED <<storeVars, faults, committed_call, failed_call>>

\* ------------------------------------------------------------ environment
\* the chain produces a block; the process reads the height only in
\* GetLatestHeight, so growth between two reads is taken just before the read
ChainGrows ==
    /\ mainPc \in {"loop", "sleep"}
    /\ chain_height < MaxHeight
    /\ chain_height' = chain_height + 1
    /\ UNCHANGED <<storeVars, now, procVars, histVars>>
    /\ UNCHANGED <<schema, fetchVars, monitorVars, scriptVars>>

\* the process is killed at any point and started again; the last value in
\* each row of the store is what the new process finds
Crash ==
    /\ mainPc \notin {"boot", "exited"}
    /\ crashes < MaxCrashes
    /\ crashes' = crashes + 1
    /\ mainPc' = "boot"
    /\ tasks' = <<>>
    /\ checked_out' = 0
    /\ latest_height' = 0
    /\ start_height' = 0
    /\ processed_blocks' = 0
    /\ error_log' = {}
    /\ signal' = "none"
    /\ exit_code' = 0
    /\ exit_cause' = "none"
    /\ committed_call' = {}
    /\ failed_call' = {}
    /\ UNCHANGED <<storeVars, envVars, batch_size, max_workers, faults>>
    /\ UNCHANGED <<schema, fetchVars, monitorVars, scriptVars>>

Next ==
    \/ StartupOk
    \/ \E cause \in {"pool", "schema"} : StartupFails(cause)
    \/ \E k \in 1..Len(TableOrder) : SetupTablesFails(k)
    \/ GetLatestHeight
    \/ GetLatestHeightFails
    \/ ReadProgressIdle
    \/ ReadProgressIngest
    \/ ReadProgressFails
    \/ Wake
    \/ \E t \in 1..MaxHeight : CollectResult(t)
    \/ IngestReturn
    \/ \E kind \in {"SIGTERM", "SIGINT"} : Signal(kind)
    \/ ShutdownDone
    \/ \E t \in 1..MaxHeight : StartTask(t)
    \/ \E t \in 1..MaxHeight : StartTaskFails(t)
    \/ \E t \in 1..MaxHeight : CursorFails(t)
    \/ \E t \in 1..MaxHeight : FetchPayload(t)
    \/ \E t \in 1..MaxHeight : \E node_height \in 0..chain_height : FetchAbsent(t, node_height)
    \/ \E t \in 1..MaxHeight : FetchError(t)
    \/ \E t \in 1..MaxHeight : StoreBlockOk(t)
    \/ \E t \in 1..MaxHeight : StoreBlockFails(t)
    \/ \E t \in 1..MaxHeight : UpdateProgressOk(t)
    \/ \E t \in 1..MaxHeight : UpdateProgressFails(t)
    \/ \E t \in 1..MaxHeight : CommitOk(t)
    \/ \E t \in 1..MaxHeight : CommitFails(t)
    \/ \E t \in 1..MaxHeight : RollbackOk(t)
    \/ \E t \in 1..MaxHeight : RollbackFailsReturn(t)
    \/ \E t \in 1..MaxHeight : RollbackFailsRaise(t)
    \/ ChainGrows
    \/ Crash

Spec == Init /\ [][Next]_vars

\* --------------------------------------------------------------- StoreSpec
\* The _store_* methods applied, in any order and any number of times, to
\* normalized records drawn from small sets, while the wall clock advances.
BlockInputs ==
    {[height |-> h, hash |-> "", time |-> tm] : h \in 1..2, tm \in {GoodTime(1), BadTime}}
TxA == [hash |-> "A", height |-> 1]
TxB == [hash |-> "B", height |-> 1]
TxInputs == {<<>>, <<TxA>>, <<TxA, TxB>>}
Ev1 == [height |-> 1, validator |-> "v1", timestamp |-> GoodTime(1)]
EvidenceInputs == {<<>>, <<Ev1>>}
Sig1 == [height |-> 1, validator_address |-> "v1", block_id_flag |-> 2, timestamp |-> GoodTime(1)]
Sig2 == [height |-> 1, validator_address |-> "v2", block_id_flag |-> 1, timestamp |-> PlainTime(1)]
SignatureInputs == {<<>>, <<Sig1>>, <<Sig1, Sig2>>}
Val1 == [address |-> "v1", voting_power |-> 10]
Val2 == [address |-> "v2", voting_power |-> 20]
ValidatorInputs == {<<>>, <<Val1>>, <<Val1, Val2>>}

StoreFrame ==
    UNCHANGED <<last_block_processed, schema, envVars, procVars, histVars, fetchVars,
                monitorVars, scriptVars>>

ApplyStoreBlock(block_data) ==
    /\ cosmos_blocks' = StoreBlock(cosmos_blocks, block_data, now)
    /\ UNCHANGED <<transactions, evidence, signatures, validator_sets>>
    /\ StoreFrame

ApplyStoreTransactions(txs) ==
    /\ txs # <<>>
    /\ transactions' = StoreTransactions(transactions, txs, now)
    /\ UNCHANGED <<cosmos_blocks, evidence, signatures, validator_sets>>
    /\ StoreFrame

ApplyStoreEvidence(evidence_list) ==
    /\ Len(evidence) + Len(evidence_list) <= MaxRows
    /\ evidence_list # <<>>
    /\ evidence' = StoreEvidence(evidence, evidence_list, now)
    /\ UNCHANGED <<cosmos_blocks, transactions, signatures, validator_sets>>
    /\ StoreFrame

ApplyStoreSignatures(sigs) ==
    /\ Len(signatures) + Len(sigs) <= MaxRows
    /\ sigs # <<>>
    /\ signatures' = StoreSignatures(signatures, sigs, now)
    /\ UNCHANGED <<cosmos_blocks, transactions, evidence, validator_sets>>
    /\ StoreFrame

ApplyStoreValidatorSet(height, validators) ==
    /\ validators # <<>>
    /\ validator_sets' = StoreValidatorSet(validator_sets, height, validators)
    /\ UNCHANGED <<cosmos_blocks, transactions, evidence, signatures>>
    /\ StoreFrame

\* the wall clock advances, half a second at a time
Tick(d) ==
    /\ now + d <= MaxClock
    /\ now' = now + d
    /\ UNCHANGED <<storeVars, chain_height, procVars, histVars>>
    /\ UNCHANGED <<schema, fetchVars, monitorVars, scriptVars>>

StoreInit ==
    /\ Init
    /\ schema = FullSchema
    /\ chain_height = 1
    /\ batch_size = 1
    /\ max_workers = 1

StoreNext ==
    \/ \E block_data \in BlockInputs : ApplyStoreBlock(block_data)
    \/ \E txs \in TxInputs : ApplyStoreTransactions(txs)
    \/ \E evidence_list \in EvidenceInputs : ApplyStoreEvidence(evidence_list)
    \/ \E sigs \in SignatureInputs : ApplyStoreSignatures(sigs)
    \/ \E validators \in ValidatorInputs : ApplyStoreValidatorSet(1, validators)
    \/ Tick(500)

StoreSpec == StoreInit /\ [][StoreNext]_vars

\* ----------------------------------------------------------- TimestampSpec
\* _store_block applied to block 1 with every timestamp of a bounded set,
\* while the wall clock advances.
FracDigits == {0, 1, 5, 9}
RECURSIVE FracsOfLen(_)
FracsOfLen(n) ==
    IF n = 0 THEN {<<>>}
    ELSE {Append(f, d) : f \in FracsOfLen(n - 1), d \in FracDigits}
\* every fraction of up to FracLen digits, and longer ones up to nine digits
FracInputs ==
    UNION {FracsOfLen(n) : n \in 1..FracLen}
      \cup {<<1, 2, 3, 4, 5, 6, 7, 8, 9>>, <<9, 9, 9, 9, 9, 9, 9>>, <<1, 2, 3, 9>>,
            <<0, 0, 0, 9, 9, 9>>, <<9, 9, 9, 4, 9, 9, 9, 9>>, <<0, 0, 4, 5, 0>>}
\* strings that are not timestamps: no date ("" among them), a dot without
\* digits, a fraction with a letter, digits after something that is no date
MalformedInputs ==
    {BadTime,
     [wf |-> TRUE, sec |-> 1, dot |-> TRUE, frac |-> <<>>],
     [wf |-> TRUE, sec |-> 1, dot |-> TRUE, frac |-> <<1, NonDigit>>],
     [wf |-> FALSE, sec |-> 1, dot |-> TRUE, frac |-> <<1, 2, 3>>]}
TimestampInputs ==
    {[wf |-> TRUE, sec |-> sc, dot |-> TRUE, frac |-> f] : sc \in 1..TimeSeconds, f \in FracInputs}
      \cup {PlainTime(sc) : sc \in 1..TimeSeconds}
      \cup MalformedInputs
      \* a letter after the sixth digit is cut off before strptime sees it
      \cup {[wf |-> TRUE, sec |-> 1, dot |-> TRUE, frac |-> <<1, 2, 3, 4, 5, 6, NonDigit>>]}

BlockAt(ts) == [kind |-> "dict", height |-> 1, hash |-> "", time |-> ts]

\* process_batch, lines 800-811: block_data is what the fetch returned and
\* _store_block stores it
StoreWithTime(ts) ==
    /\ fetch_return' = [value |-> BlockAt(ts), printed |-> FALSE]
    /\ cosmos_blocks' = StoreBlock(cosmos_blocks, BlockAt(ts), now)
    /\ UNCHANGED <<ChildTables, last_block_processed, schema, envVars, procVars, histVars,
                   monitorVars, scriptVars>>
    /\ UNCHANGED <<fetch_pc, fetch_height, retries_left, block_response,
                   validators_response>>

TimestampInit == StoreInit

TimestampNext ==
    \/ \E ts \in TimestampInputs : StoreWithTime(ts)
    \/ Tick(500)

TimestampSpec == TimestampInit /\ [][TimestampNext]_vars

\* --------------------------------------------------------------- BatchSpec
\* One cycle of main from the point where the remote height has been read,
\* for every watermark, remote height and batch size of a bounded set: the
\* store holds the blocks up to the watermark, and main reads the watermark
\* and either sleeps or submits the batches of ingest_blocks.
BlocksUpTo(w) ==
    [h \in 1..w |-> [height |-> h, hash |-> "", time |-> ParseTimestamp(GoodTime(h), 0)]]

BatchInit ==
    /\ last_block_processed \in 0..(RangeMax - 1)
    /\ schema = FullSchema
    /\ cosmos_blocks = BlocksUpTo(last_block_processed)
    /\ transactions = <<>>
    /\ evidence = <<>>
    /\ signatures = <<>>
    /\ validator_sets = <<>>
    /\ chain_height \in 1..RangeMax
    /\ now = 0
    /\ batch_size \in 1..BatchMax
    /\ max_workers = 1
    /\ mainPc = "read_progress"
    /\ latest_height = chain_height
    /\ start_height = 0
    /\ processed_blocks = 0
    /\ tasks = <<>>
    /\ checked_out = 0
    /\ error_log = {}
    /\ signal = "none"
    /\ exit_code = 0
    /\ exit_cause = "none"
    /\ faults = 0
    /\ crashes = 0
    /\ committed_call = {}
    /\ failed_call = {}
    /\ FetchIdle
    /\ MonitorIdle
    /\ ScriptsIdle

BatchNext ==
    \/ ReadProgressIdle
    \/ ReadProgressIngest

BatchSpec == BatchInit /\ [][BatchNext]_vars

\* --------------------------------------------------------------- FetchSpec
\* One call of fetch_block_data(height): the /block request, then the
\* /validators request, each sent through the session of RequestsSession,
\* attempt by attempt, against a node that may answer anything.
FetchFrame == UNCHANGED <<storeVars, schema, envVars, procVars, histVars, monitorVars, scriptVars>>

\* line 699: the first request is sent
FetchCall(h) ==
    /\ fetch_pc = "idle"
    /\ fetch_pc' = "block"
    /\ fetch_height' = h
    /\ retries_left' = RetryTotal
    /\ UNCHANGED <<block_response, validators_response, fetch_return>>
    /\ FetchFrame

\* an attempt fails and the adapter sends the request again
RequestRetried(outcome) ==
    /\ fetch_pc \in {"block", "validators"}
    /\ ShouldRetry(outcome, retries_left)
    /\ retries_left' = retries_left - 1
    /\ IF fetch_pc = "block"
       THEN /\ block_response' = Retrying(outcome)
            /\ UNCHANGED validators_response
       ELSE /\ validators_response' = Retrying(outcome)
            /\ UNCHANGED block_response
    /\ UNCHANGED <<fetch_pc, fetch_height, fetch_return>>
    /\ FetchFrame

\* an attempt fails and is not repeated: session.get raises (connection
\* error, RetryError) or raise_for_status raises (HTTPError), or json()
\* raises on a body that is not JSON; the except of lines 786-788 returns
RequestRaises(outcome) ==
    /\ fetch_pc \in {"block", "validators"}
    /\ ~ShouldRetry(outcome, retries_left)
    /\ IF fetch_pc = "block"
       THEN /\ block_response' = Raised(outcome)
            /\ UNCHANGED validators_response
       ELSE /\ validators_response' = Raised(outcome)
            /\ UNCHANGED block_response
    /\ fetch_return' = FetchBlockData(block_response', validators_response')
    /\ fetch_pc' = "returned"
    /\ UNCHANGED <<fetch_height, retries_left>>
    /\ FetchFrame

\* /block answers 200 with a JSON body: lines 705-718, then the second
\* request (line 721) or return None
BlockAnswered(body) ==
    /\ fetch_pc = "block"
    /\ body \in BlockBodies(fetch_height)
    /\ block_response' = Json(body)
    /\ IF HoldsBlock(block_response')
       THEN /\ fetch_pc' = "validators"
            /\ retries_left' = RetryTotal
            /\ UNCHANGED fetch_return
       ELSE /\ fetch_pc' = "returned"
            /\ fetch_return' = FetchBlockData(block_response', validators_response)
            /\ UNCHANGED retries_left
    /\ UNCHANGED <<fetch_height, validators_response>>
    /\ FetchFrame

\* /validators answers 200 with a JSON body: lines 727-785
ValidatorsAnswered(body) ==
    /\ fetch_pc = "validators"
    /\ validators_response' = Json(body)
    /\ fetch_return' = FetchBlockData(block_response, validators_response')
    /\ fetch_pc' = "returned"
    /\ UNCHANGED <<fetch_height, retries_left, block_response>>
    /\ FetchFrame

\* process_batch, lines 801-828, for the dictionary the fetch returned: the
\* block row, the progress statement for the height of the loop, the commit
StoreFetched ==
    /\ fetch_pc = "returned"
    /\ fetch_return.value.kind = "dict"
    /\ fetch_pc' = "stored"
    /\ cosmos_blocks' = StoreBlock(cosmos_blocks, fetch_return.value, now)
    /\ last_block_processed' = UpdateProgress(last_block_processed, fetch_height)
    /\ UNCHANGED <<ChildTables, schema, envVars, procVars, histVars, monitorVars, scriptVars>>
    /\ UNCHANGED <<fetch_height, retries_left, block_response, validators_response,
                   fetch_return>>

FetchInit ==
    /\ Init
    /\ schema = FullSchema
    /\ chain_height = 1
    /\ batch_size = 1
    /\ max_workers = 1

FetchNext ==
    \/ \E h \in 1..MaxHeight : FetchCall(h)
    \/ \E outcome \in AttemptErrors : RequestRetried(outcome)
    \/ \E outcome \in AttemptErrors \cup {"json"} : RequestRaises(outcome)
    \/ \E body \in AllBlockBodies : BlockAnswered(body)
    \/ \E body \in ValidatorBodies : ValidatorsAnswered(body)
    \/ StoreFetched

FetchSpec == FetchInit /\ [][FetchNext]_vars

\* ------------------------------------------------------------- MonitorSpec
\* The loop of monitor_validators against a chain whose latest height is
\* one of MonitorHeights, with requests that fail (all endpoints) at most
\* MaxMonitorFailures times.
MonitorHeights == {1, 3, TotalBlocks + 2}

MonitorFrame == UNCHANGED <<storeVars, schema, envVars, procVars, histVars, fetchVars,
                            scriptVars>>

\* lines 103-116: the latest block is fetched and the pass starts
GetLatestBlock(latest) ==
    /\ monitor.pc = "start"
    /\ monitor' = [pc |-> "window",
                   latest_height |-> latest,
                   start_height |-> Max(1, latest - TotalBlocks + 1),
                   height |-> Max(1, latest - TotalBlocks + 1),
                   blocks_checked |-> 0,
                   signed_counts |-> ZeroCounts,
                   examined |-> {},
                   unvalidated |-> 0,
                   outcome |-> "latest",
                   slept |-> 0,
                   failures |-> monitor.failures,
                   completed |-> FALSE]
    /\ UNCHANGED metrics
    /\ MonitorFrame

\* lines 103-106: no endpoint answers; time.sleep(check_interval), continue
LatestUnavailable ==
    /\ monitor.pc = "start"
    /\ monitor.failures < MaxMonitorFailures
    /\ monitor' = [monitor EXCEPT !.failures = @ + 1, !.pc = "sleep", !.slept = @ + 1,
                                  !.outcome = "no_latest", !.completed = FALSE]
    /\ UNCHANGED metrics
    /\ MonitorFrame

\* (mutant) no except around the pass: the exception leaves monitor_validators
OnPassErrorEscapes(m) ==
    [m EXCEPT !.pc = "dead", !.outcome = "error", !.completed = FALSE]

\* lines 174-178: an exception of the pass is printed, then the loop sleeps
OnPassError(m) ==
    [m EXCEPT !.pc = "sleep", !.slept = @ + 1, !.outcome = "error", !.completed = FALSE]

\* line 108: the latest block has no result.block.header.height
LatestMalformed ==
    /\ monitor.pc = "start"
    /\ monitor.failures < MaxMonitorFailures
    /\ monitor' = [OnPassError(monitor) EXCEPT !.failures = @ + 1]
    /\ UNCHANGED metrics
    /\ MonitorFrame

InWindow == monitor.pc = "window" /\ monitor.height <= monitor.latest_height

\* lines 120-148: something other than a RequestException leaves get_block or
\* get_validator_set (a body that is no JSON, a URL that cannot be rewritten)
PassRaises ==
    /\ InWindow
    /\ monitor.failures < MaxMonitorFailures
    /\ monitor' = [OnPassError(monitor) EXCEPT !.failures = @ + 1]
    /\ UNCHANGED metrics
    /\ MonitorFrame

\* lines 120-122: get_block(height) returns None
BlockUnavailable ==
    /\ InWindow
    /\ monitor.failures < MaxMonitorFailures
    /\ monitor' = [monitor EXCEPT !.failures = @ + 1,
                                  !.examined = @ \cup {monitor.height},
                                  !.outcome = "no_block",
                                  !.height = @ + 1]
    /\ UNCHANGED metrics
    /\ MonitorFrame

\* lines 124-126: the block is counted; the loop is left when more than
\* total_blocks were counted
Counted(m) ==
    [m EXCEPT !.blocks_checked = @ + 1,
              !.examined = @ \cup {m.height},
              !.outcome = "examined",
              !.height = IF m.blocks_checked + 1 > TotalBlocks
                         THEN m.latest_height + 1 ELSE m.height + 1]

\* (mutant) the validator set is looked at before the block is counted
WithoutValidatorsSkipped(m) ==
    [m EXCEPT !.examined = @ \cup {m.height},
              !.unvalidated = @ + 1,
              !.outcome = "no_validators",
              !.height = @ + 1]

\* lines 124-130: the block is counted, then the missing validator set
\* ends the iteration
WithoutValidators(m) ==
    [Counted(m) EXCEPT !.unvalidated = @ + 1,
                       !.outcome = "no_validators"]

ValidatorSetUnavailable ==
    /\ InWindow
    /\ monitor.failures < MaxMonitorFailures
    /\ monitor' = [WithoutValidators(monitor) EXCEPT !.failures = @ + 1]
    /\ UNCHANGED metrics
    /\ MonitorFrame

\* lines 120-153: the block is counted and its signers are credited
ExamineBlock ==
    /\ InWindow
    /\ monitor' = IF monitor.blocks_checked + 1 > TotalBlocks
                  THEN Counted(monitor)
                  ELSE [Counted(monitor) EXCEPT
                           !.signed_counts = Credit(@, SignaturesAt(monitor.height))]
    /\ UNCHANGED metrics
    /\ MonitorFrame

\* lines 155-178: the gauges of every address are updated, the loop sleeps
UpdateAllMetrics ==
    /\ monitor.pc = "window"
    /\ monitor.height > monitor.latest_height
    /\ metrics' = UpdateAll(metrics, Addresses, monitor.signed_counts,
                            Min(monitor.blocks_checked, TotalBlocks))
    /\ monitor' = [monitor EXCEPT !.pc = "sleep", !.slept = @ + 1, !.outcome = "summary",
                                  !.completed = TRUE]
    /\ MonitorFrame

\* time.sleep(check_interval) returns and the loop starts its next pass
SleepDone ==
    /\ monitor.pc = "sleep"
    /\ monitor' = [monitor EXCEPT !.pc = "start", !.slept = 0]
    /\ UNCHANGED metrics
    /\ MonitorFrame

MonitorInit ==
    /\ Init
    /\ schema = FullSchema
    /\ chain_height = 1
    /\ batch_size = 1
    /\ max_workers = 1

MonitorNext ==
    \/ \E latest \in MonitorHeights : GetLatestBlock(latest)
    \/ LatestUnavailable
    \/ LatestMalformed
    \/ PassRaises
    \/ SleepDone
    \/ BlockUnavailable
    \/ ValidatorSetUnavailable
    \/ ExamineBlock
    \/ UpdateAllMetrics

MonitorSpec == MonitorInit /\ [][MonitorNext]_vars

\* ------------------------------------------------------------ FailoverSpec
\* make_request of beacond-monitor.py, request by request, for every number
\* of endpoints up to MaxEndpoints and a bounded number of calls in a row.
FailoverFrame == UNCHANGED <<storeVars, schema, envVars, procVars, histVars, fetchVars,
                             monitorVars, umee, peggo>>

\* get_block / get_validator_set call make_request on the active endpoint
MakeRequest(path) ==
    /\ rpc.pc \in {"idle", "returned"}
    /\ rpc.calls < MaxCalls
    /\ rpc' = [rpc EXCEPT !.pc = "request",
                          !.url = UrlOf(GetActiveRpc(rpc.endpoints, rpc.current_rpc_index), path),
                          !.attempt = 0,
                          !.start = rpc.current_rpc_index,
                          !.sent = <<>>,
                          !.result = "pending",
                          !.calls = @ + 1]
    /\ FailoverFrame

Requesting == rpc.pc = "request" /\ rpc.attempt < Len(rpc.endpoints)

\* lines 56-58: the request succeeds and its JSON is returned
RequestSucceeds ==
    /\ Requesting
    /\ rpc' = [rpc EXCEPT !.sent = Append(@, rpc.url),
                          !.result = "response",
                          !.pc = "returned"]
    /\ FailoverFrame

\* lines 59-64: RequestException: switch_rpc, the URL gets the new host
RequestFails ==
    /\ Requesting
    /\ LET index == SwitchRpc(rpc.current_rpc_index, Len(rpc.endpoints))
       IN rpc' = [rpc EXCEPT !.sent = Append(@, rpc.url),
                             !.attempt = @ + 1,
                             !.current_rpc_index = index,
                             !.url = ReplaceHost(@, GetActiveRpc(rpc.endpoints, index))]
    /\ FailoverFrame

\* line 65: the loop ran len(rpc_endpoints) times
ReturnNone ==
    /\ rpc.pc = "request"
    /\ rpc.attempt >= Len(rpc.endpoints)
    /\ rpc' = [rpc EXCEPT !.result = "None", !.pc = "returned"]
    /\ FailoverFrame

FailoverInit ==
    /\ Init
    /\ schema = FullSchema
    /\ chain_height = 1
    /\ batch_size = 1
    /\ max_workers = 1

\* main: ValidatorMonitor(args.rpc.split(','), ...), current_rpc_index = 0
StartMonitor(n) ==
    /\ rpc.pc = "idle"
    /\ rpc.calls = 0
    /\ Len(rpc.endpoints) # n
    /\ rpc' = [rpc EXCEPT !.endpoints = SubSeq(EndpointPool, 1, n)]
    /\ FailoverFrame

FailoverNext ==
    \/ \E n \in 1..MaxEndpoints : StartMonitor(n)
    \/ \E path \in {"block", "validators"} : MakeRequest(path)
    \/ RequestSucceeds
    \/ RequestFails
    \/ ReturnNone

FailoverSpec == FailoverInit /\ [][FailoverNext]_vars

\* ---------------------------------------------------------------- UmeeSpec
\* The loop of umee-pricefeeder-exporter.py, request by request.
UmeeFrame == UNCHANGED <<storeVars, schema, envVars, procVars, histVars, fetchVars,
                         monitorVars, rpc, peggo>>

\* data['params']['accept_list'] of the responses
DenomLists == {<<>>, <<"ATOM">>, <<"atom", "ATOM">>, <<"umee", "ATOM", "BTC">>}

\* data['validators'] of the responses
ValidatorLists == {<<Validator(OtherValidator, "other")>>,
                   <<Validator(OtherValidator, "other"), Validator(Operator, "me")>>}

\* non-empty data['aggregate_votes'] of the responses
VoteLists ==
    {<<AggregateVote(OtherValidator, {"ATOM", "UMEE"})>>,
     <<AggregateVote(OtherValidator, {"ATOM"}), AggregateVote(Operator, {"ATOM"})>>,
     <<AggregateVote(Operator, {"UMEE", "ATOM", "BTC"}), AggregateVote(Operator, {})>>,
     <<AggregateVote(Operator, {"atom", "XYZ"})>>}

\* get_accepted_denoms answers 200
GetAcceptedDenoms(accept_list) ==
    /\ umee.pc = "denoms"
    /\ umee' = [CountRequest(umee) EXCEPT !.denoms_resp = accept_list,
                                          !.missing_before = umee.missing_votes,
                                          !.last = "ok", !.pc = "validators"]
    /\ UmeeFrame

\* get_validators answers 200; get_req is called next
GetValidators(validators) ==
    /\ umee.pc = "validators"
    /\ umee' = [CountRequest(umee) EXCEPT !.validators = validators,
                                          !.last = "ok", !.depth = 1, !.pc = "votes"]
    /\ UmeeFrame

\* get_req answers 200 with an empty aggregate_votes
GetReqEmpty ==
    /\ umee.pc = "votes"
    /\ umee' = Recurse(CountRequest(umee))
    /\ UmeeFrame

\* get_req answers 200 with votes and votes_inspector runs to its end
GetReqVotes(aggregate_votes) ==
    /\ umee.pc = "votes"
    /\ umee' = VotesInspector(CountRequest(umee), aggregate_votes)
    /\ UmeeFrame

\* one of the three requests answers with another status than 200
RequestNot200 ==
    /\ umee.pc \in {"denoms", "validators", "votes"}
    /\ umee' = LogError(CountRequest(umee))
    /\ UmeeFrame

\* requests.get raises (no connection): nothing is counted, nothing catches
UmeeRequestRaises ==
    /\ umee.pc \in {"denoms", "validators", "votes"}
    /\ umee' = [Uncaught(umee, "raised") EXCEPT !.issued = @ + 1]
    /\ UmeeFrame

\* lines 103-104: time.sleep(CHECK_INTERVAL), then the next pass
UmeeSleepDone ==
    /\ umee.pc = "sleep"
    /\ umee.passes + 1 < MaxUmeePasses
    /\ umee' = [umee EXCEPT !.pc = "denoms", !.passes = @ + 1]
    /\ UmeeFrame

UmeeInit ==
    /\ Init
    /\ schema = FullSchema
    /\ chain_height = 1
    /\ batch_size = 1
    /\ max_workers = 1

UmeeNext ==
    \/ \E accept_list \in DenomLists : GetAcceptedDenoms(accept_list)
    \/ \E validators \in ValidatorLists : GetValidators(validators)
    \/ GetReqEmpty
    \/ \E aggregate_votes \in VoteLists : GetReqVotes(aggregate_votes)
    \/ RequestNot200
    \/ UmeeRequestRaises
    \/ UmeeSleepDone

UmeeSpec == UmeeInit /\ [][UmeeNext]_vars

\* --------------------------------------------------------------- PeggoSpec
\* The loop of injective-peggo-prometheus-exporter.py, request by request.
PeggoFrame == UNCHANGED <<storeVars, schema, envVars, procVars, histVars, fetchVars,
                          monitorVars, rpc, umee>>

Statuses == {200, 503}
Nonces == {NoNonce} \cup 0..MaxNonce
PeggoRequests == {"batch", "valsets", "module_state", "oracle_event"}

\* lines 19-32: the batch request; another status than 200 ends the pass
BatchResponse(status) ==
    /\ peggo.pc = "batch"
    /\ peggo' = IF status = 200 THEN [peggo EXCEPT !.pc = "valsets"]
                ELSE [peggo EXCEPT !.pc = "sleep", !.failed = "status"]
    /\ PeggoFrame

\* lines 34-47: the valset request; another status than 200 ends the pass
ValsetsResponse(status) ==
    /\ peggo.pc = "valsets"
    /\ peggo' = IF status = 200 THEN [peggo EXCEPT !.pc = "module_state"]
                ELSE [peggo EXCEPT !.pc = "sleep", !.failed = "status"]
    /\ PeggoFrame

\* line 49: the module-state response is kept, the next request follows
ModuleStateResponse(status, lon) ==
    /\ peggo.pc = "module_state"
    /\ peggo' = [peggo EXCEPT !.pc = "oracle_event", !.lon_status = status,
                              !.lon = IF status = 200 THEN lon ELSE NoNonce,
                              !.failed = IF status = 200 THEN @ ELSE "status"]
    /\ PeggoFrame

\* lines 50-65: the oracle-event response and the rest of main
OracleEventResponse(status, lce) ==
    /\ peggo.pc = "oracle_event"
    /\ peggo' = SetLatency(peggo, status, lce)
    /\ PeggoFrame

\* requests.get raises (no connection, timeout of the socket): main has no
\* try, the loop has none, the process ends with a traceback
PeggoRequestRaises ==
    /\ peggo.pc \in PeggoRequests
    /\ peggo' = [peggo EXCEPT !.pc = "exited", !.failed = "raised",
                              !.exit_cause = "RequestException"]
    /\ PeggoFrame

\* lines 72-73: time.sleep(CHECK_INTERVAL), then the next pass
PeggoSleepDone ==
    /\ peggo.pc = "sleep"
    /\ peggo.passes + 1 < MaxPeggoPasses
    /\ peggo' = [peggo EXCEPT !.pc = "batch", !.passes = @ + 1, !.failed = "no",
                              !.gauge_set = FALSE, !.lon = NoNonce, !.lon_status = 200]
    /\ PeggoFrame

PeggoInit ==
    /\ Init
    /\ schema = FullSchema
    /\ chain_height = 1
    /\ batch_size = 1
    /\ max_workers = 1

PeggoNext ==
    \/ \E status \in Statuses : BatchResponse(status)
    \/ \E status \in Statuses : ValsetsResponse(status)
    \/ \E status \in Statuses, lon \in Nonces : ModuleStateResponse(status, lon)
    \/ \E status \in Statuses, lce \in Nonces : OracleEventResponse(status, lce)
    \/ PeggoRequestRaises
    \/ PeggoSleepDone

PeggoSpec == PeggoInit /\ [][PeggoNext]_vars

\* --------------------------------------------------------------- SetupSpec
\* The startup of the process on every database of a bounded set: any
\* subset of the tables, a cosmos_blocks table with or without the added
\* column and index, block rows and a progress row when their tables exist;
\* the process is started again after it ran or failed.
SetupDatabases ==
    {d \in SUBSET FullSchema : "cosmos_blocks" \notin d => d \cap AddedToBlocks = {}}

SetupInit ==
    /\ schema \in SetupDatabases
    /\ last_block_processed \in {NoRow} \cup 0..SetupMaxWatermark
    /\ "ingestion_progress" \notin schema => last_block_processed = NoRow
    /\ cosmos_blocks = IF "cosmos_blocks" \in schema
                       THEN BlocksUpTo(GetLastProcessedBlock(last_block_processed))
                       ELSE <<>>
    /\ transactions = <<>>
    /\ evidence = <<>>
    /\ signatures = <<>>
    /\ validator_sets = <<>>
    /\ chain_height = 1
    /\ now = 0
    /\ batch_size = 1
    /\ max_workers = 1
    /\ mainPc = "boot"
    /\ latest_height = 0
    /\ start_height = 0
    /\ processed_blocks = 0
    /\ tasks = <<>>
    /\ checked_out = 0
    /\ error_log = {}
    /\ signal = "none"
    /\ exit_code = 0
    /\ exit_cause = "none"
    /\ faults = 0
    /\ crashes = 0
    /\ committed_call = {}
    /\ failed_call = {}
    /\ FetchIdle
    /\ MonitorIdle
    /\ ScriptsIdle

\* the process, set up or ended by a failed setup, is started again
Restart ==
    /\ mainPc \in {"loop", "exited"}
    /\ crashes < MaxCrashes
    /\ crashes' = crashes + 1
    /\ mainPc' = "boot"
    /\ exit_code' = 0
    /\ exit_cause' = "none"
    /\ UNCHANGED <<storeVars, schema, envVars, fetchVars, monitorVars, scriptVars>>
    /\ UNCHANGED <<batch_size, max_workers, latest_height, start_height, processed_blocks,
                   tasks, checked_out, error_log, signal>>
    /\ UNCHANGED <<faults, committed_call, failed_call>>

SetupNext ==
    \/ StartupOk
    \/ \E k \in 1..Len(TableOrder) : SetupTablesFails(k)
    \/ Restart

SetupSpec == SetupInit /\ [][SetupNext]_vars

\* ------------------------------------------------------------------ claims
\* every unit the futures of the running call cover
CallUnits == Units(tasks)

\* task t begins work on a unit in this step
StartsUnit(t) ==
    /\ t \in DOMAIN tasks'
    /\ tasks'[t].pc = "fetch"
    /\ tasks[t].pc # "fetch" \/ tasks'[t].height # tasks[t].height

\* C1: the stored watermark never decreases, whatever the order in which
\* the workers run their progress statements.
C1_WatermarkNeverDecreases ==
    [][last_block_processed' >= last_block_processed]_vars

\* C2: once all workers of an ingest_blocks call have finished, the stored
\* watermark equals the largest unit committed during the call.
C2_WatermarkIsMaxCommitted ==
    (mainPc = "ingest" /\ AllFinished /\ committed_call # {})
        => last_block_processed = SetMax(committed_call)

\* C3: after a crash and restart, with no other failure, a process that has
\* caught up to height N holds a block row for every unit of [1, N], as an
\* uninterrupted run does.
C3_ResumeLeavesNoGap ==
    (crashes > 0 /\ faults = 0 /\ mainPc = "sleep")
        => \A u \in 1..latest_height : u \in DOMAIN cosmos_blocks

\* the same without a crash: an uninterrupted, failure-free run leaves no gap
UninterruptedLeavesNoGap ==
    (crashes = 0 /\ faults = 0 /\ mainPc = "sleep")
        => \A u \in 1..latest_height : u \in DOMAIN cosmos_blocks

\* C4: when a statement of unit h fails and the rollback of process_batch
\* returns, no row written for h in that attempt is left in the store.
C4_RollbackRemovesUnitRows ==
    [][\A t \in DOMAIN tasks :
          (t \in DOMAIN tasks' /\ tasks[t].pc = "rollback" /\ tasks'[t].pc = "fetch")
              => tasks[t].fresh \cap DOMAIN cosmos_blocks' = {}]_vars

\* C5: for every row kind, after a step that stored a normalized record,
\* storing the same record again leaves the table as it is: no new row,
\* no changed row.
C5_UpsertIdempotent ==
    [][/\ \A b \in BlockInputs :
             cosmos_blocks' = StoreBlock(cosmos_blocks, b, now)
                 => StoreBlock(cosmos_blocks', b, now) = cosmos_blocks'
       /\ \A txs \in TxInputs :
             transactions' = StoreTransactions(transactions, txs, now)
                 => StoreTransactions(transactions', txs, now) = transactions'
       /\ \A vs \in ValidatorInputs :
             validator_sets' = StoreValidatorSet(validator_sets, 1, vs)
                 => StoreValidatorSet(validator_sets', 1, vs) = validator_sets'
       /\ \A ev \in EvidenceInputs :
             evidence' = StoreEvidence(evidence, ev, now)
                 => StoreEvidence(evidence', ev, now) = evidence'
       /\ \A sg \in SignatureInputs :
             signatures' = StoreSignatures(signatures, sg, now)
                 => StoreSignatures(signatures', sg, now) = signatures']_vars

\* the keyed tables alone (block, transaction, validator set), at one instant
KeyedUpsertIdempotent ==
    [][/\ \A b \in BlockInputs :
             cosmos_blocks' = StoreBlock(cosmos_blocks, b, now)
                 => StoreBlock(cosmos_blocks', b, now) = cosmos_blocks'
       /\ \A txs \in TxInputs :
             transactions' = StoreTransactions(transactions, txs, now)
                 => StoreTransactions(transactions', txs, now) = transactions'
       /\ \A vs \in ValidatorInputs :
             validator_sets' = StoreValidatorSet(validator_sets, 1, vs)
                 => StoreValidatorSet(validator_sets', 1, vs) = validator_sets']_vars

\* C6: when ingest_blocks is about to return, every unit of the range that
\* did not fail itself was committed, and the count excludes only the
\* failed units.
C6_FailureIsolation ==
    (mainPc = "ingest" /\ AllCollected)
        => /\ \A u \in CallUnits : u \notin failed_call => u \in committed_call
           /\ processed_blocks = Cardinality(CallUnits \ failed_call)

\* C7: a fetch that finds the unit not yet produced changes no stored row
\* and no watermark, prints no error line, counts nothing, and the worker
\* goes on to the next unit or returns.
C7_AbsentUnitSkipped ==
    [][\A t \in DOMAIN tasks :
          (/\ t \in DOMAIN tasks'
           /\ tasks[t].pc = "fetch"
           /\ tasks'[t] # tasks[t]
           /\ tasks'[t].last_fetch = "absent")
              => /\ storeVars' = storeVars
                 /\ error_log' = error_log
                 /\ tasks'[t].blocks_processed = tasks[t].blocks_processed
                 /\ tasks'[t].pc \in {"fetch", "done"}
                 /\ tasks[t].height \notin committed_call']_vars

C7_Witness ==
    \E t \in DOMAIN tasks :
        /\ tasks[t].last_fetch = "absent"
        /\ tasks[t].lo \in failed_call
        /\ tasks[t].lo \notin DOMAIN cosmos_blocks

\* C8: a cycle reads the remote height L, then the watermark W; with
\* W + 1 > L it submits nothing and sleeps, then re-checks; otherwise it
\* submits batches covering exactly [W + 1, L] and, when ingest_blocks
\* returns, starts the next cycle without sleeping.
C8_ProgressLoopCycle ==
    [][/\ (mainPc = "loop" /\ mainPc' = "read_progress")
              => latest_height' = chain_height
       /\ (mainPc = "read_progress" /\ mainPc' \in {"sleep", "ingest"})
              => IF GetLastProcessedBlock(last_block_processed) + 1 > latest_height
                 THEN mainPc' = "sleep" /\ tasks' = <<>>
                 ELSE /\ mainPc' = "ingest"
                      /\ Units(tasks')
                           = (GetLastProcessedBlock(last_block_processed) + 1)..latest_height
                      /\ \A t \in DOMAIN tasks' : tasks'[t].pc = "queued"
       /\ (mainPc = "sleep" /\ mainPc' \notin {"sleep", "exited", "boot"})
              => mainPc' = "loop" /\ tasks' = <<>>
       /\ (mainPc = "ingest" /\ mainPc' \notin {"ingest", "shutdown", "exited", "boot"})
              => mainPc' = "loop" /\ AllCollected]_vars

C8_Witness ==
    /\ mainPc = "sleep"
    /\ start_height > latest_height
    /\ DOMAIN cosmos_blocks # {}
    /\ crashes = 0

\* the steps the program takes when nothing fails
ProgramStep ==
    \/ StartupOk
    \/ GetLatestHeight
    \/ ReadProgressIdle
    \/ ReadProgressIngest
    \/ Wake
    \/ IngestReturn
    \/ ShutdownDone
    \/ \E t \in DOMAIN tasks :
          \/ CollectResult(t)
          \/ StartTask(t)
          \/ FetchPayload(t)
          \/ StoreBlockOk(t)
          \/ UpdateProgressOk(t)
          \/ CommitOk(t)
          \/ RollbackOk(t)

BatchErrorSurvived ==
    /\ mainPc = "read_progress"
    /\ <<"future", 1>> \in error_log

\* C10: once a termination signal has arrived during ingest_blocks, no
\* worker begins another unit.
C10_NoNewWorkAfterSignal ==
    [][(signal # "none" /\ mainPc = "shutdown")
          => \A t \in DOMAIN tasks : ~StartsUnit(t)]_vars

\* what does hold: after the signal no open unit is abandoned, every batch
\* runs to its end before the process exits
SignalWaitsForAllBatches ==
    [][(mainPc = "shutdown" /\ mainPc' = "exited") => AllFinished]_vars

\* C11: a startup failure (pool creation or setup_tables raises) ends the
\* process with a non-zero status; a termination signal that arrives once
\* the Progress Loop runs (reading the height, reading the watermark,
\* sleeping or inside ingest_blocks) ends it with status zero.
C11_ExitStatus ==
    [][/\ (mainPc = "boot" /\ mainPc' = "exited" /\ signal' = "none")
              => exit_code' # 0 /\ exit_cause' \in {"pool", "schema"}
       /\ (signal = "none" /\ signal' # "none" /\ mainPc # "boot")
              => /\ exit_code' = 0
                 /\ mainPc' \in {"exited", "shutdown"}
       /\ (mainPc = "shutdown" /\ mainPc' = "exited" /\ signal # "none")
              => exit_code' = 0
       /\ mainPc = "exited" => exit_code' = exit_code]_vars

C11_Witness ==
    /\ mainPc = "exited"
    /\ signal = "SIGINT"
    /\ exit_cause = "signal"
    /\ exit_code = 0
    /\ DOMAIN cosmos_blocks # {}

C13_ReturnsCommittedCount ==
    (mainPc = "ingest" /\ AllCollected)
        => /\ processed_blocks = Cardinality(committed_call)
           /\ processed_blocks \in 0..Cardinality(CallUnits)

\* C15: a task takes the units of its sub-range one by one in increasing
\* order, starting with the first; it begins unit h + 1 only from the end of
\* unit h, when h is committed (its row stored) or has failed or was absent.
C15_UnitsInOrder ==
    [][\A t \in DOMAIN tasks :
          (t \in DOMAIN tasks' /\ tasks'[t] # tasks[t])
              => /\ tasks'[t].height \in {tasks[t].height, tasks[t].height + 1}
                 /\ (tasks[t].pc = "queued" /\ tasks'[t].pc = "fetch")
                        => tasks'[t].height = tasks[t].lo
                 /\ (tasks[t].pc # "queued" /\ tasks'[t].pc = "fetch")
                        => tasks'[t].height = tasks[t].height + 1
                 /\ tasks'[t].height = tasks[t].height + 1
                        => /\ tasks[t].pc \in {"fetch", "commit", "rollback"}
                           /\ tasks'[t].pc = "fetch"
                           /\ tasks'[t].height <= tasks[t].hi
                           /\ tasks[t].height \in committed_call' \cup failed_call'
                           /\ tasks[t].pc = "commit"
                                  => tasks[t].height \in DOMAIN cosmos_blocks'
                 /\ tasks'[t].pc \in {"store_block", "update_progress", "commit",
                                      "rollback"}
                        => tasks'[t].height = tasks[t].height]_vars

C15_Witness ==
    \E t \in DOMAIN tasks :
        /\ tasks[t].pc = "fetch"
        /\ tasks[t].height = tasks[t].lo + 1
        /\ tasks[t].lo \in committed_call
        /\ tasks[t].lo \in DOMAIN cosmos_blocks

\* across sub-ranges there is no order: a later sub-range has committed a
\* unit while an earlier one has not yet stored its first
CrossBatchOutOfOrder ==
    \E t, u \in DOMAIN tasks :
        /\ t < u
        /\ tasks[t].pc = "fetch"
        /\ tasks[t].lo \notin DOMAIN cosmos_blocks
        /\ tasks[u].lo \in committed_call

\* C16: the failure of a unit and the rollback that follows leave every
\* stored row of the other units as it is, in the same sub-range and in the
\* others; so does a crash.
C16_FailureKeepsEarlierUnits ==
    [][/\ \A t \in DOMAIN tasks :
             (/\ t \in DOMAIN tasks'
              /\ tasks'[t] # tasks[t]
              /\ tasks'[t].pc = "rollback" \/ tasks[t].pc = "rollback")
                 => /\ \A u \in DOMAIN cosmos_blocks \ {tasks[t].height} :
                          /\ u \in DOMAIN cosmos_blocks'
                          /\ cosmos_blocks'[u] = cosmos_blocks[u]
                    /\ ChildTables' = ChildTables
       /\ (mainPc # "boot" /\ mainPc' = "boot") => storeVars' = storeVars]_vars

C16_Witness ==
    \E t \in DOMAIN tasks :
        /\ tasks[t].pc = "done"
        /\ tasks[t].hi > tasks[t].lo
        /\ <<"unit", tasks[t].hi>> \in error_log
        /\ tasks[t].lo \in committed_call
        /\ tasks[t].lo \in DOMAIN cosmos_blocks

\* C17: the connections checked out of the pool are those of the tasks that
\* are running: a task that ended has returned its connection, and none is
\* out once ingest_blocks has returned.
C17_ConnectionsReturned ==
    checked_out = RunningCount

\* the same for the tasks that entered the try of process_batch: every way
\* out of it passes the finally
ReturnedOnceInsideTry ==
    [][\A t \in DOMAIN tasks :
          (t \in DOMAIN tasks' /\ Running(tasks[t]) /\ Finished(tasks'[t]))
              => checked_out' = checked_out - 1]_vars

\* C14: the sub-ranges ingest_blocks submits for [start, end] are contiguous
\* and disjoint, begin at start and end at end, hold batch_size units each
\* except the last, which holds between 1 and batch_size, and every unit of
\* the range belongs to exactly one task.
C14_BatchPartition ==
    mainPc = "ingest"
        => /\ Len(tasks) >= 1
           /\ tasks[1].lo = start_height
           /\ tasks[Len(tasks)].hi = latest_height
           /\ \A i \in 1..(Len(tasks) - 1) :
                 /\ tasks[i + 1].lo = tasks[i].hi + 1
                 /\ tasks[i].hi - tasks[i].lo + 1 = batch_size
           /\ tasks[Len(tasks)].hi - tasks[Len(tasks)].lo + 1 \in 1..batch_size
           /\ \A u \in start_height..latest_height :
                 Cardinality({i \in 1..Len(tasks) : u \in TaskUnits(tasks[i])}) = 1
           /\ Units(tasks) = start_height..latest_height

C14_Witness ==
    /\ mainPc = "ingest"
    /\ start_height > 1
    /\ Len(tasks) >= 2
    /\ tasks[Len(tasks)].hi - tasks[Len(tasks)].lo + 1 < batch_size

\* what happened in the call, as the contract of the fetch names it: a
\* request that failed, a height the node has not produced, a body without
\* the block, or a block
FetchSituation(block, vals) ==
    IF block.kind = "raised" \/ vals.kind = "raised" THEN "transport failure"
    ELSE IF ~block.body.has_result THEN "absent"
    ELSE IF ~block.body.has_block THEN "malformed"
    ELSE "payload"

BlockResults == {Raised(c) : c \in AttemptErrors} \cup {Json(b) : b \in AllBlockBodies}
ValidatorResults ==
    {NoResponse} \cup {Raised(c) : c \in AttemptErrors} \cup {Json(b) : b \in ValidatorBodies}

\* C18: when the block request returned a block and the validator-set
\* request fails, or answers without validator data, fetch_block_data still
\* returns the unit, with voting power and proposer priority zero.
C18_ValidatorLookupTolerated ==
    (/\ fetch_pc = "returned"
     /\ HoldsBlock(block_response)
     /\ \/ validators_response.kind = "raised"
        \/ /\ validators_response.kind = "json"
           /\ \/ ~validators_response.body.has_result
              \/ validators_response.body.validators = <<>>)
        => /\ fetch_return.value.kind = "dict"
           /\ fetch_return.value.total_voting_power = 0
           /\ fetch_return.value.proposer_priority = 0

\* what does hold: a validator-set answer that carries no data gives zeros
EmptyValidatorAnswerTolerated ==
    (/\ fetch_pc = "returned"
     /\ HoldsBlock(block_response)
     /\ ~TransformRaises(block_response.body)
     /\ validators_response.kind = "json"
     /\ \/ ~validators_response.body.has_result
        \/ validators_response.body.validators = <<>>)
        => /\ fetch_return.value.kind = "dict"
           /\ fetch_return.value.total_voting_power = 0
           /\ fetch_return.value.proposer_priority = 0

\* C19: the value fetch_block_data returns tells its caller what happened:
\* no two calls that ended differently (absent unit, malformed payload,
\* transport failure, payload) return the same value.
C19_OutcomesDistinguishable ==
    fetch_pc = "returned"
        => \A b \in BlockResults : \A v \in ValidatorResults :
              (/\ b.kind = "json" /\ ~HoldsBlock(b) => v = NoResponse
               /\ HoldsBlock(b) => v # NoResponse
               /\ b.kind = "raised" => v = NoResponse
               /\ FetchBlockData(b, v).value = fetch_return.value)
                  => FetchSituation(b, v)
                       = FetchSituation(block_response, validators_response)

\* progress of one call: the request it is at
FetchStage(pc) ==
    CASE pc = "idle" -> 0
      [] pc = "block" -> 1
      [] pc = "validators" -> 2
      [] pc = "returned" -> 3
      [] pc = "stored" -> 4

\* C20: an attempt is repeated only after a connection error or a status of
\* 429/500/502/503/504, each repeat uses up one of the 3 retries; any other
\* error status ends the fetch in that step; a request that raises for a
\* retried cause has used all its retries; every step takes the call
\* forward, so it ends, with a dictionary or with None.
C20_RetryPolicy ==
    [][/\ retries_left' \in 0..RetryTotal
       /\ (fetch_pc \in {"block", "validators"} /\ fetch_pc' = fetch_pc)
             => /\ retries_left' = retries_left - 1
                /\ IF fetch_pc = "block"
                   THEN block_response'.kind = "retrying"
                          /\ block_response'.cause \in RetryConditions
                   ELSE validators_response'.kind = "retrying"
                          /\ validators_response'.cause \in RetryConditions
       /\ \A r \in {block_response', validators_response'} :
             (r.kind = "raised" /\ r \notin {block_response, validators_response})
                => /\ fetch_pc' = "returned"
                   /\ r.cause \in RetryConditions => retries_left = 0
                   /\ r.cause \in OtherErrorStatuses => retries_left' = retries_left
       /\ \/ FetchStage(fetch_pc') > FetchStage(fetch_pc)
          \/ FetchStage(fetch_pc') = FetchStage(fetch_pc) /\ retries_left' < retries_left
       /\ fetch_pc' = "returned" => fetch_return'.value.kind \in {"dict", "None"}]_vars

C20_Witness ==
    /\ fetch_pc = "returned"
    /\ HoldsBlock(block_response)
    /\ validators_response = Raised("503")
    /\ retries_left = 0
    /\ fetch_return.value = PyNone

\* C27: every watermark write of a cycle that read watermark W is for a
\* unit greater than W, so the watermark never falls below the value the
\* running cycle started from, and each cycle of a process starts from a
\* watermark at least as high as its previous cycle did. A crash leaves the
\* stored watermark as it is, so the same holds across a restart.
C27_WatermarkAcrossCycles ==
    [][/\ (last_block_processed' # last_block_processed /\ mainPc \in {"ingest", "shutdown"})
             => last_block_processed' >= start_height
       /\ (mainPc \in {"sleep", "ingest", "shutdown"} /\ mainPc' = mainPc)
             => GetLastProcessedBlock(last_block_processed') >= start_height - 1
       /\ (mainPc = "read_progress" /\ mainPc' \in {"sleep", "ingest"})
             => /\ start_height' = GetLastProcessedBlock(last_block_processed) + 1
                /\ start_height' >= start_height
       /\ (mainPc # "boot" /\ mainPc' = "boot")
             => last_block_processed' = last_block_processed]_vars

C27_Witness ==
    /\ mainPc = "ingest"
    /\ crashes = 0
    /\ start_height = 2
    /\ last_block_processed = 2

\* C28: a unit at or below the stored watermark that no task of the running
\* call covers is not scheduled again, whether it was stored or not: the
\* units a cycle schedules are all above the watermark it read.
C28_NoRetryBelowWatermark ==
    [][/\ \A h \in 1..MaxHeight :
             (GetLastProcessedBlock(last_block_processed) >= h /\ h \notin Units(tasks))
                 => h \notin Units(tasks')
       /\ (mainPc = "read_progress" /\ mainPc' = "ingest")
             => \A h \in Units(tasks') :
                   h > GetLastProcessedBlock(last_block_processed)]_vars

C28_Witness ==
    /\ mainPc = "sleep"
    /\ crashes = 0
    /\ faults = 1
    /\ last_block_processed = 2
    /\ 1 \notin DOMAIN cosmos_blocks
    /\ 2 \in DOMAIN cosmos_blocks

\* the store is set up: every structure exists and the progress row is there
IsSetUp == FullSchema \subseteq schema /\ last_block_processed # NoRow

\* C21: a run of setup_tables, complete or cut short, on any database:
\* removes no table, column or index, changes no stored row, leaves a
\* progress row that exists as it is; a complete run leaves every structure
\* in place and the progress row present (0 when it had to be inserted);
\* on a store that is already set up it changes nothing.
C21_SetupIdempotent ==
    [][/\ schema \subseteq schema'
       /\ cosmos_blocks' = cosmos_blocks
       /\ ChildTables' = ChildTables
       /\ last_block_processed # NoRow => last_block_processed' = last_block_processed
       /\ (mainPc = "boot" /\ mainPc' = "loop")
             => /\ schema' = FullSchema \cup schema
                /\ last_block_processed' # NoRow
                /\ last_block_processed = NoRow => last_block_processed' = 0
       /\ (mainPc = "boot" /\ IsSetUp)
             => schema' = schema /\ last_block_processed' = last_block_processed]_vars

C21_Witness ==
    /\ mainPc = "loop"
    /\ crashes = 1
    /\ IsSetUp
    /\ last_block_processed = 2
    /\ DOMAIN cosmos_blocks = 1..2

\* the call ended with a dictionary (kept while process_batch stores it)
ReturnedDict ==
    /\ fetch_pc \in {"returned", "stored"}
    /\ fetch_return.value.kind = "dict"

\* the signatures of the block that was answered, [] without a last_commit
AnsweredSignatures ==
    IF HasField(block_response.body, "last_commit")
    THEN block_response.body.signatures ELSE <<>>

\* C22: valid_signatures is the number of entries of the signature list
\* that are objects with block_id_flag 2 or 3 and a non-empty signature,
\* total_signatures is the length of the list, the count is at most the
\* total, and the list flag 2/'a', 1/'', 3/'b', 2/'' counts 2.
C22_ValidSignatureCount ==
    ReturnedDict
        => LET sigs == AnsweredSignatures
               counted == {i \in 1..Len(sigs) :
                              /\ sigs[i].is_dict
                              /\ sigs[i].block_id_flag \in {2, 3}
                              /\ sigs[i].signature # ""}
           IN /\ fetch_return.value.valid_signatures = Cardinality(counted)
              /\ fetch_return.value.total_signatures = Len(sigs)
              /\ fetch_return.value.valid_signatures <= fetch_return.value.total_signatures
              /\ sigs = ExampleSignatures => fetch_return.value.valid_signatures = 2

C22_Witness ==
    /\ ReturnedDict
    /\ AnsweredSignatures = MixedSignatures
    /\ fetch_return.value.valid_signatures = 1
    /\ fetch_return.value.total_signatures = 5

\* C25: the voting power and the priority of the dictionary are those of
\* the entry with the lowest index among the validators whose address is the
\* proposer's, both zero when there is none; a validator answer never makes
\* a block that can be transformed fail.
C25_ProposerLookup ==
    /\ ReturnedDict
          => LET vs == IF validators_response.body.has_result
                       THEN validators_response.body.validators ELSE <<>>
                 matches == {i \in 1..Len(vs) :
                                vs[i].address = fetch_return.value.proposer_address}
             IN IF matches = {}
                THEN /\ fetch_return.value.total_voting_power = 0
                     /\ fetch_return.value.proposer_priority = 0
                ELSE LET first == CHOOSE i \in matches : \A j \in matches : i <= j
                     IN /\ fetch_return.value.total_voting_power = vs[first].voting_power
                        /\ fetch_return.value.proposer_priority = vs[first].proposer_priority
    /\ (/\ fetch_pc = "returned"
        /\ HoldsBlock(block_response)
        /\ ~TransformRaises(block_response.body)
        /\ validators_response.kind = "json")
          => fetch_return.value.kind = "dict"

C25_Witness ==
    /\ ReturnedDict
    /\ validators_response.body.validators = <<NodeVal2, NodeVal1, NodeVal1Again>>
    /\ fetch_return.value.proposer_address = "v1"
    /\ fetch_return.value.total_voting_power = 10
    /\ fetch_return.value.proposer_priority = -3

\* the dictionary carries the default of every sub-field the block lacks
DefaultsForMissing ==
    LET body == block_response.body
    IN /\ ~HasField(body, "header.height") => fetch_return.value.height = 0
       /\ ~HasField(body, "header.time") => fetch_return.value.time = BadTime
       /\ ~HasField(body, "header.proposer_address")
             => fetch_return.value.proposer_address = ""
       /\ ~HasField(body, "last_commit")
             => /\ fetch_return.value.valid_signatures = 0
                /\ fetch_return.value.total_signatures = 0
       /\ fetch_return.value.hash = ""

\* C26: once both requests were answered, every payload that holds the
\* block container is transformed into a dictionary, with the default in
\* the place of every sub-field it lacks.
C26_FailsOnlyWithoutBlock ==
    (/\ fetch_pc = "returned"
     /\ HoldsBlock(block_response)
     /\ validators_response.kind = "json")
        => /\ fetch_return.value.kind = "dict"
           /\ DefaultsForMissing

\* what does hold: a block whose sub-fields are left out, none of them
\* null, is transformed with the defaults
MissingSubFieldsDegrade ==
    (/\ fetch_pc = "returned"
     /\ HoldsBlock(block_response)
     /\ ~TransformRaises(block_response.body)
     /\ validators_response.kind = "json")
        => /\ fetch_return.value.kind = "dict"
           /\ DefaultsForMissing

\* C29: when process_batch has committed the unit it asked for, the
\* watermark is that unit and cosmos_blocks holds a row keyed by it.
C29_RowKeyedByUnit ==
    fetch_pc = "stored"
        => /\ last_block_processed = fetch_height
           /\ fetch_height \in DOMAIN cosmos_blocks
           /\ cosmos_blocks[fetch_height].height = fetch_height

\* what does hold: the row is keyed by the height of the header, 0 without
StoredUnderHeaderHeight ==
    fetch_pc = "stored"
        => /\ last_block_processed = fetch_height
           /\ DOMAIN cosmos_blocks = {fetch_return.value.height}
           /\ fetch_return.value.height \in {0, fetch_height}

\* the source timestamp is well formed: date, time, and either no fraction
\* or a dot followed by one to nine digits
WellFormedTime(ts) ==
    /\ ts.wf
    /\ IF ts.dot
       THEN Len(ts.frac) \in 1..9 /\ \A i \in 1..Len(ts.frac) : ts.frac[i] \in 0..9
       ELSE ts.frac = <<>>

\* the fraction in nanoseconds
Nanos(frac) ==
    LET nine == frac \o <<0, 0, 0, 0, 0, 0, 0, 0, 0>>
        p == <<100000000, 10000000, 1000000, 100000, 10000, 1000, 100, 10, 1>>
    IN nine[1] * p[1] + nine[2] * p[2] + nine[3] * p[3] + nine[4] * p[4] + nine[5] * p[5]
         + nine[6] * p[6] + nine[7] * p[7] + nine[8] * p[8] + nine[9] * p[9]

\* a step in which process_batch stored the block it holds
StoredBlockData ==
    /\ fetch_return'.value.kind = "dict"
    /\ fetch_return' # fetch_return \/ cosmos_blocks' # cosmos_blocks

\* C23: whenever _store_block stores a block with a well-formed timestamp,
\* the row carries the second of the timestamp and the millisecond that is
\* the fraction cut (not rounded) after three digits, 0..999, zero-padded:
\* .123456789 gives 123, .9999999 gives 999, .5 gives 500, none gives 0.
C23_TimestampTruncated ==
    [][(StoredBlockData /\ WellFormedTime(fetch_return'.value.time))
          => LET ts == fetch_return'.value.time
             IN /\ cosmos_blocks'[1].time.sec = ts.sec
                /\ cosmos_blocks'[1].time.ms = Nanos(ts.frac) \div 1000000
                /\ cosmos_blocks'[1].time.ms \in 0..999
                /\ ts.frac = <<1, 2, 3, 4, 5, 6, 7, 8, 9>> => cosmos_blocks'[1].time.ms = 123
                /\ ts.frac = <<9, 9, 9, 9, 9, 9, 9>> => cosmos_blocks'[1].time.ms = 999
                /\ ts.frac = <<5>> => cosmos_blocks'[1].time.ms = 500]_vars

C23_Witness ==
    /\ fetch_return.value.kind = "dict"
    /\ fetch_return.value.time.frac = <<9, 9, 9, 9, 9, 9, 9>>
    /\ fetch_return.value.time.sec = 2
    /\ cosmos_blocks[1].time = [sec |-> 2, ms |-> 999]

\* C24: whenever _store_block stores a block whose timestamp is not well
\* formed and that strptime rejects, the row is stored all the same and
\* carries the wall clock of the moment, to the millisecond.
C24_MalformedFallsBack ==
    [][(StoredBlockData /\ fetch_return'.value.time \in MalformedInputs)
          => /\ ~WellFormedTime(fetch_return'.value.time)
             /\ 1 \in DOMAIN cosmos_blocks'
             /\ cosmos_blocks'[1].time.sec = now \div 1000
             /\ cosmos_blocks'[1].time.ms = now % 1000]_vars

C24_Witness ==
    /\ fetch_return.value.kind = "dict"
    /\ fetch_return.value.time = BadTime
    /\ cosmos_blocks[1].time = [sec |-> 0, ms |-> 500]
    /\ now = 500

\* a pass of the monitor has run to its end
\* the interpreter keeps running the loop: a step that can be taken is taken
MonitorLiveSpec == MonitorInit /\ [][MonitorNext]_vars /\ WF_vars(MonitorNext)

PassDone == monitor.pc = "sleep" /\ monitor.completed

\* the blocks counted in the pass
BlocksCounted == Min(monitor.blocks_checked, TotalBlocks)

\* the blocks of the window in which addr has an entry that signs
SigningBlocks(addr) ==
    {h \in monitor.examined :
        \E i \in 1..Len(SignaturesAt(h)) :
            /\ SignaturesAt(h)[i].is_dict
            /\ SignaturesAt(h)[i].validator_address = addr
            /\ ~SignaturesAt(h)[i].bad_flag
            /\ SignaturesAt(h)[i].block_id_flag > 1}

\* the window and the counters of a pass that ended
WindowCounted ==
    /\ monitor.examined = Max(1, monitor.latest_height - 99)..monitor.latest_height
    /\ monitor.blocks_checked <= 100
    /\ monitor.blocks_checked <= Cardinality(monitor.examined)
    /\ \A addr \in AddressSet :
          /\ monitor.signed_counts[addr] \in 0..BlocksCounted
          /\ monitor.signed_counts[addr] <= Cardinality(SigningBlocks(addr))

\* C30: after every pass over latest height L the heights examined are
\* max(1, L - 99)..L, at most 100 blocks were counted, a validator has at
\* most one credit per block, and the gauges of every monitored address
\* show 0 <= signed <= blocks counted and missed = blocks counted - signed.
C30_SigningWindow ==
    PassDone
        => /\ WindowCounted
           /\ \A addr \in AddressSet :
                 /\ metrics.blocks_signed[addr] \in 0..BlocksCounted
                 /\ metrics.blocks_missed[addr] = BlocksCounted - metrics.blocks_signed[addr]

\* what does hold: the window and the counters, and the gauges after a
\* pass that counted a block; a pass that counted none leaves them alone
GaugesOfCountingPass ==
    PassDone
        => /\ WindowCounted
           /\ BlocksCounted > 0
                 => \A addr \in AddressSet :
                       /\ metrics.blocks_signed[addr] = monitor.signed_counts[addr]
                       /\ metrics.blocks_missed[addr]
                            = BlocksCounted - metrics.blocks_signed[addr]

\* C33: a block whose validator set could not be fetched is counted and
\* credits nobody, a block that could not be fetched is not counted; at the
\* end of the pass every monitored address has at least the blocks without a
\* validator set among its missed blocks.
C33_UnvalidatedCountsAsMissed ==
    [][/\ (monitor' # monitor /\ monitor'.outcome = "no_validators")
             => /\ monitor'.blocks_checked = monitor.blocks_checked + 1
                /\ monitor'.signed_counts = monitor.signed_counts
                /\ monitor'.unvalidated = monitor.unvalidated + 1
                /\ monitor.height \in monitor'.examined
       /\ (monitor' # monitor /\ monitor'.outcome = "no_block")
             => /\ monitor'.blocks_checked = monitor.blocks_checked
                /\ monitor'.signed_counts = monitor.signed_counts
                /\ monitor.height \in monitor'.examined
       /\ (monitor.pc = "window" /\ monitor'.outcome = "summary")
             => \A addr \in AddressSet :
                   /\ monitor.blocks_checked >= monitor.unvalidated
                   /\ monitor.unvalidated > 0
                         => metrics'.blocks_missed[addr] >= monitor.unvalidated]_vars

C33_Witness ==
    /\ PassDone
    /\ monitor.latest_height = 3
    /\ monitor.blocks_checked = 2
    /\ monitor.unvalidated = 1
    /\ Cardinality(monitor.examined) = 3
    /\ \A addr \in AddressSet : metrics.blocks_missed[addr] >= 1

\* C34: the summary of a pass that counted no block leaves the three gauges
\* of every address as the pass before left them, and the pass ends in the
\* sleep of the loop like any other.
C34_EmptyPassKeepsGauges ==
    [][(monitor.pc = "window" /\ monitor'.outcome = "summary" /\ monitor.blocks_checked = 0)
          => /\ metrics' = metrics
             /\ monitor'.pc = "sleep"]_vars

C34_Witness ==
    /\ PassDone
    /\ monitor.blocks_checked = 0
    /\ metrics.blocks_signed["v2"] = 1
    /\ metrics.blocks_missed["v1"] = 0
    /\ metrics.signing_percentage["v2"] = Percentage(1, 1)

\* C35: no step ends the loop: whatever a pass runs into, it ends in the
\* sleep, one call of time.sleep per pass, the next pass starts from the
\* sleep only, from every state the loop can take a step, and the loop
\* sleeps and starts a pass again and again.
C35_LoopNeverEnds ==
    /\ []<>(monitor.pc = "sleep")
    /\ []<>(monitor.pc = "start")
    /\ [](monitor.pc \in {"start", "window", "sleep"})
    /\ [](monitor.pc = "sleep" => monitor.slept = 1)
    /\ [](ENABLED MonitorNext)
    /\ [][/\ (monitor.pc = "window" /\ monitor'.pc # "window") => monitor'.pc = "sleep"
          /\ (monitor.pc = "start" /\ monitor'.pc # "start")
                => monitor'.pc \in {"window", "sleep"}
          /\ (monitor.pc # "start" /\ monitor'.pc = "start")
                => monitor.pc = "sleep" /\ monitor.slept = 1
          /\ (monitor.pc # "sleep" /\ monitor'.outcome = "error")
                => monitor'.pc = "sleep" /\ monitor'.slept = 1]_vars

C35_Witness ==
    /\ monitor.pc = "start"
    /\ monitor.outcome = "error"
    /\ monitor.failures = 2

EndpointAt(k) == GetActiveRpc(rpc.endpoints, (rpc.start + k - 1) % Len(rpc.endpoints))

C31_PollRepeatsWithoutLimit ==
    [][(umee.pc = "votes" /\ umee'.last \in {"empty", "recursion"})
          => umee'.pc = "votes"]_vars

\* the operator's first aggregate vote of the pass, if there is one
OperatorVotes == {i \in 1..Len(umee.aggregate_votes) :
                     umee.aggregate_votes[i].voter = Operator}
OperatorFound == \E i \in 1..Len(umee.validators) :
                     umee.validators[i].operator_address = Operator
AcceptedUpper == {Upper(umee.denoms_resp[i]) : i \in 1..Len(umee.denoms_resp)}
PassComplete == umee.pc = "sleep" /\ umee.last = "votes"
MissingAsStated ==
    PassComplete =>
       IF OperatorFound
       THEN IF OperatorVotes = {}
            THEN umee.missing_votes = Cardinality(AcceptedUpper)
            ELSE LET first == CHOOSE i \in OperatorVotes : \A j \in OperatorVotes : i <= j
                 IN umee.missing_votes =
                       Cardinality({d \in AcceptedUpper :
                                       d \notin umee.aggregate_votes[first].denoms})
       ELSE umee.missing_votes = umee.missing_before

\* C36 as stated: the gauge is what the pass computed for a found operator,
\* is left alone for one that is not found, and is always between 0 and the
\* umee_total_votes gauge.
C36_MissingWithinTotalAlways ==
    /\ MissingAsStated
    /\ 0 <= umee.missing_votes
    /\ umee.missing_votes <= umee.total_votes

\* C36: after a pass for an operator found among the validators the gauge is
\* the number of upper-cased, deduplicated accepted denoms that are not in
\* the operator's first aggregate vote (all of them without a vote) and lies
\* between 0 and umee_total_votes; after a pass that did not find the
\* operator the gauge is what it was before, whatever umee_total_votes is.
C36_MissingVotes ==
    /\ MissingAsStated
    /\ 0 <= umee.missing_votes
    /\ (PassComplete /\ OperatorFound) => umee.missing_votes <= umee.total_votes

C36_Witness ==
    /\ PassComplete
    /\ OperatorFound
    /\ umee.denoms_resp = <<"atom", "ATOM">>
    /\ umee.aggregate_votes[1].voter = Operator
    /\ umee.aggregate_votes[1].denoms = {"atom", "XYZ"}
    /\ umee.missing_votes = 1
    /\ umee.total_votes = 2

LatencySetOnlyAfterFour200 ==
    peggo'.latency # peggo.latency
       => /\ peggo.pc = "oracle_event"
          /\ peggo'.failed = "no"
          /\ peggo'.gauge_set
          /\ peggo'.pc = "sleep"

\* C38: the latency gauge changes only in a pass whose four requests all
\* returned 200, and a pass in which a request failed, whatever the failure,
\* keeps the gauge, ends without an error and is followed by the sleep.
C38_FailedPassSleeps ==
    [][/\ LatencySetOnlyAfterFour200
       /\ (peggo.pc \in PeggoRequests /\ peggo'.pc \notin PeggoRequests
             /\ peggo'.failed # "no")
             => /\ peggo'.latency = peggo.latency
                /\ peggo'.pc = "sleep"]_vars

\* C38, for the failures that are responses: a pass in which a request got
\* another status than 200 keeps the gauge and ends in the sleep.
C38_Not200PassSleeps ==
    [][/\ LatencySetOnlyAfterFour200
       /\ (peggo.pc \in PeggoRequests /\ peggo'.pc \notin PeggoRequests
             /\ peggo'.failed = "status")
             => /\ peggo'.latency = peggo.latency
                /\ peggo'.pc = "sleep"]_vars

====
